---- MODULE Spec2Model ----
(***************************************************************************)
(* Model of the siting engine of kazuma (scoring_utils.py,                 *)
(* siting_engine.py, models.py), of the rescoring of the grid nodes         *)
(* (grid_data.py), of the plant statistics (power_plants_data.py) and of   *)
(* the server that loads the data and keeps the scenarios (main.py).       *)
(*                                                                         *)
(* Numbers.  The program computes in binary floating point; the model      *)
(* computes the same expressions exactly, in fixed point:                  *)
(*   distances            whole kilometres                                 *)
(*   proximity factors    1/ProxScale                                      *)
(*   transmission factors 1/DecayScale                                     *)
(*   clean multipliers    1/MultScale                                      *)
(*   capacities           whole MW                                         *)
(*   returned scores      tenths (round(x, 1)) or thousandths (unrounded)  *)
(*   weights              1/NanoPerUnit                                    *)
(* Coordinates.  Every coordinate of the model lies on one meridian, where *)
(* pythagorean_distance is |lat2 - lat1| * 111 km; a latitude is given in  *)
(* units of 1/111 degree, so one unit is one kilometre.                    *)
(***************************************************************************)
EXTENDS Integers, Naturals, Sequences, FiniteSets, TLC

\* One call of a function of the engine: its arguments, its result, its steps
VARIABLES call, ret, trace

\* The server of main.py: the module-level names of main.py (energy_sources,
\* grid_nodes, power_plants, saved_scenarios), the cache of power_plants_data.py,
\* the plants and sources the data files hold, and the evaluation whose save
\* returned each scenario_id handed out so far
VARIABLES main, cached_plants, disk, issued

server == <<main, cached_plants, disk, issued>>

vars == <<call, ret, trace, main, cached_plants, disk, issued>>

----------------------------------------------------------------------------
(* Fixed-point units *)

\* 1.0 as a proximity factor: every breakpoint value of proximity_decay_factor
\* is a whole number of thousandths at whole kilometres.
ProxScale == 10 * 100

\* 1.0 as a transmission factor: the slopes 0.4/150 and 0.1/200 need 1/3000
\* and 1/2000.
DecayScale == 6 * 1000

\* 1.0 as a clean multiplier (1.0, 0.95, 0.9, 0.5, 0.0 are twentieths).
MultScale == 4 * 5

\* x thousandths as a proximity factor / as a transmission factor
ProxMilli(x) == x * (ProxScale \div 1000)
DecayMilli(x) == x * (DecayScale \div 1000)

\* What a call has produced: nothing yet, a value, or a raised ValueError
Pending == [status |-> "pending"]
Ok(v) == [status |-> "ok", value |-> v]
ValueError == [status |-> "ValueError"]
IndexError == [status |-> "IndexError"]

Abs(x) == IF x < 0 THEN -x ELSE x
Max2(a, b) == IF a >= b THEN a ELSE b
Min2(a, b) == IF a <= b THEN a ELSE b

\* n * m = q * d + r with 0 <= r < d, as <<q, r>>, for 0 <= n <= d and m >= 0:
\* binary long multiplication, no intermediate above 3 * d.
RECURSIVE MulDiv(_, _, _)
MulDiv(n, m, d) ==
    IF m = 0 THEN <<0, 0>>
    ELSE LET h == MulDiv(n, m \div 2, d)
             t == 2 * h[2] + (IF m % 2 = 1 THEN n ELSE 0)
         IN <<2 * h[1] + (t \div d), t % d>>

\* Python's round(): the nearest integer to q + r/d (0 <= r < d), ties to even.
RoundHalfEven(q, r, d) ==
    IF 2 * r > d THEN q + 1
    ELSE IF 2 * r < d THEN q
    ELSE IF q % 2 = 0 THEN q ELSE q + 1

\* round(n * m / d) for 0 <= n <= d, d > 0
RoundMulDiv(n, m, d) ==
    LET qr == MulDiv(n, m, d) IN RoundHalfEven(qr[1], qr[2], d)

\* round(x, 1) of x given in thousandths, as tenths
RoundMilliToTenths(x) == RoundHalfEven(x \div 100, x % 100, 100)

----------------------------------------------------------------------------
(* scoring_utils.py: thresholds *)

DISTANCE_EXCELLENT == 50
DISTANCE_GOOD == 100
DISTANCE_MODERATE == 200
DISTANCE_FAIR == 300

TRANSMISSION_LOCAL == 50
TRANSMISSION_REGIONAL == 150
TRANSMISSION_BULK == 300
TRANSMISSION_LONG == 500

\* Capacity classes of transmission_decay_factor (MW)
LARGE_PLANT_MW == 500
MEDIUM_PLANT_MW == 100
SUPER_LARGE_PLANT_MW == 1000

----------------------------------------------------------------------------
(* scoring_utils.py: distance and decay *)

\* pythagorean_distance for two points of one meridian: lon_diff_km = 0 and
\* sqrt(lat_diff_km^2) = |lat2 - lat1| * 111, with latitudes in 1/111 degree.
pythagorean_distance(lat1, lat2) == Abs(lat2 - lat1)

\* proximity_decay_factor with the 300 km cut-off dropped: the last band runs on
proximity_decay_factor_nocutoff(distance_km) ==
    IF distance_km < DISTANCE_EXCELLENT THEN ProxMilli(1000)
    ELSE IF distance_km < DISTANCE_GOOD THEN
        ProxMilli(1000) - ((distance_km - DISTANCE_EXCELLENT) * ProxMilli(300))
                              \div (DISTANCE_GOOD - DISTANCE_EXCELLENT)
    ELSE IF distance_km < DISTANCE_MODERATE THEN
        ProxMilli(700) - ((distance_km - DISTANCE_GOOD) * ProxMilli(300))
                             \div (DISTANCE_MODERATE - DISTANCE_GOOD)
    ELSE ProxMilli(400) - ((distance_km - DISTANCE_MODERATE) * ProxMilli(200))
                             \div (DISTANCE_FAIR - DISTANCE_MODERATE)

\* proximity_decay_factor with the second band starting from 0.8 instead of 0.7
proximity_decay_factor_jump(distance_km) ==
    IF distance_km < DISTANCE_EXCELLENT THEN ProxMilli(1000)
    ELSE IF distance_km < DISTANCE_GOOD THEN
        ProxMilli(1000) - ((distance_km - DISTANCE_EXCELLENT) * ProxMilli(300))
                              \div (DISTANCE_GOOD - DISTANCE_EXCELLENT)
    ELSE IF distance_km < DISTANCE_MODERATE THEN
        ProxMilli(800) - ((distance_km - DISTANCE_GOOD) * ProxMilli(300))
                             \div (DISTANCE_MODERATE - DISTANCE_GOOD)
    ELSE IF distance_km < DISTANCE_FAIR THEN
        ProxMilli(400) - ((distance_km - DISTANCE_MODERATE) * ProxMilli(200))
                             \div (DISTANCE_FAIR - DISTANCE_MODERATE)
    ELSE 0

proximity_decay_factor(distance_km) ==
    IF distance_km < DISTANCE_EXCELLENT THEN ProxMilli(1000)
    ELSE IF distance_km < DISTANCE_GOOD THEN
        ProxMilli(1000) - ((distance_km - DISTANCE_EXCELLENT) * ProxMilli(300))
                              \div (DISTANCE_GOOD - DISTANCE_EXCELLENT)
    ELSE IF distance_km < DISTANCE_MODERATE THEN
        ProxMilli(700) - ((distance_km - DISTANCE_GOOD) * ProxMilli(300))
                             \div (DISTANCE_MODERATE - DISTANCE_GOOD)
    ELSE IF distance_km < DISTANCE_FAIR THEN
        ProxMilli(400) - ((distance_km - DISTANCE_MODERATE) * ProxMilli(200))
                             \div (DISTANCE_FAIR - DISTANCE_MODERATE)
    ELSE 0

\* calculate_scores.py carries its own copy, with the thresholds as literals
proximity_decay_factor_script(distance_km) ==
    IF distance_km < 50 THEN ProxMilli(1000)
    ELSE IF distance_km < 100 THEN
        ProxMilli(1000) - ((distance_km - 50) * ProxMilli(300)) \div 50
    ELSE IF distance_km < 200 THEN
        ProxMilli(700) - ((distance_km - 100) * ProxMilli(300)) \div 100
    ELSE IF distance_km < 300 THEN
        ProxMilli(400) - ((distance_km - 200) * ProxMilli(200)) \div 100
    ELSE 0

\* The voltage class chosen from the plant's capacity: its range and its curve
max_range(plant_capacity_mw) ==
    IF plant_capacity_mw >= LARGE_PLANT_MW THEN TRANSMISSION_BULK
    ELSE IF plant_capacity_mw >= MEDIUM_PLANT_MW THEN TRANSMISSION_REGIONAL
    ELSE TRANSMISSION_LOCAL

decay_curve(plant_capacity_mw) ==
    IF plant_capacity_mw >= LARGE_PLANT_MW THEN "gentle"
    ELSE IF plant_capacity_mw >= MEDIUM_PLANT_MW THEN "moderate"
    ELSE "steep"

\* The base factor of a plant within its range
base_factor(distance_km, plant_capacity_mw) ==
    LET curve == decay_curve(plant_capacity_mw) IN
    IF distance_km < TRANSMISSION_LOCAL THEN DecayMilli(1000)
    ELSE IF distance_km < TRANSMISSION_REGIONAL THEN
        DecayMilli(1000)
          - ((distance_km - TRANSMISSION_LOCAL)
               * DecayMilli(IF curve = "steep" THEN 700
                            ELSE IF curve = "moderate" THEN 400 ELSE 200))
            \div (TRANSMISSION_REGIONAL - TRANSMISSION_LOCAL)
    ELSE IF distance_km < TRANSMISSION_BULK THEN
        DecayMilli(IF curve = "steep" THEN 300
                   ELSE IF curve = "moderate" THEN 600 ELSE 800)
          - ((distance_km - TRANSMISSION_REGIONAL)
               * DecayMilli(IF curve = "steep" THEN 300
                            ELSE IF curve = "moderate" THEN 400 ELSE 300))
            \div (TRANSMISSION_BULK - TRANSMISSION_REGIONAL)
    ELSE IF plant_capacity_mw >= SUPER_LARGE_PLANT_MW THEN
        DecayMilli(500) - ((distance_km - TRANSMISSION_BULK) * DecayMilli(400))
                              \div (TRANSMISSION_LONG - TRANSMISSION_BULK)
    ELSE IF plant_capacity_mw >= LARGE_PLANT_MW THEN
        DecayMilli(200) - ((distance_km - TRANSMISSION_BULK) * DecayMilli(200))
                              \div (TRANSMISSION_LONG - TRANSMISSION_BULK)
    ELSE 0

\* beyond_range_factor granting the residual credit to every plant of the
\* gentle class (500 MW and more) instead of 1000 MW and more
beyond_range_factor_large(distance_km, plant_capacity_mw) ==
    IF plant_capacity_mw >= LARGE_PLANT_MW /\ distance_km < TRANSMISSION_LONG
    THEN DecayMilli(100)
           - ((distance_km - max_range(plant_capacity_mw)) * DecayMilli(100))
             \div (TRANSMISSION_LONG - max_range(plant_capacity_mw))
    ELSE 0

\* The credit of a plant beyond its range
beyond_range_factor(distance_km, plant_capacity_mw) ==
    IF plant_capacity_mw >= SUPER_LARGE_PLANT_MW /\ distance_km < TRANSMISSION_LONG
    THEN DecayMilli(100)
           - ((distance_km - max_range(plant_capacity_mw)) * DecayMilli(100))
             \div (TRANSMISSION_LONG - max_range(plant_capacity_mw))
    ELSE 0

transmission_decay_factor(distance_km, plant_capacity_mw) ==
    IF distance_km > max_range(plant_capacity_mw)
    THEN beyond_range_factor(distance_km, plant_capacity_mw)
    ELSE Max2(0, base_factor(distance_km, plant_capacity_mw))

----------------------------------------------------------------------------
(* models.py: PowerPlant *)

\* PowerPlant.is_renewable
is_renewable(plant) ==
    \/ plant.primary_fuel \in {"WND", "SUN", "WAT", "GEO"}
    \/ plant.primary_fuel_category \in {"WIND", "SOLAR", "HYDRO", "GEOTHERMAL"}

\* PowerPlant.is_clean
is_clean(plant) == is_renewable(plant)

----------------------------------------------------------------------------
(* scoring_utils.py: the score calculators *)

\* One MW of raw clean-generation score (capacity * multiplier * proximity)
GenUnit == MultScale * ProxScale

\* One MW of raw transmission score (capacity * decay)
TransUnit == DecayScale

\* An Optional value is a sequence of at most one element: <<>> is None
None == <<>>
Some(v) == <<v>>

RECURSIVE SumSeq(_)
SumSeq(q) == IF q = <<>> THEN 0 ELSE Head(q) + SumSeq(Tail(q))

\* max() of a non-empty list
MaxSeq(q) ==
    CHOOSE x \in { q[i] : i \in 1..Len(q) } : \A i \in 1..Len(q) : q[i] <= x

\* list.sort(): the ascending arrangement of q; its k-th element is the value
\* with fewer than k elements below it and at least k elements not above it
SortAsc(q) ==
    [k \in 1..Len(q) |->
        CHOOSE v \in { q[i] : i \in 1..Len(q) } :
            /\ Cardinality({ i \in 1..Len(q) : q[i] < v }) < k
            /\ Cardinality({ i \in 1..Len(q) : q[i] <= v }) >= k]

\* The adequacy bands with their lower bounds exclusive
calculate_capacity_adequacy_factor_exclusive(available_capacity, demand_mw) ==
    IF demand_mw <= 0 THEN 100
    ELSE LET d == demand_mw * MultScale IN
         IF available_capacity > 3 * d THEN 120
         ELSE IF available_capacity > 2 * d THEN 110
         ELSE IF 2 * available_capacity > 3 * d THEN 100
         ELSE IF available_capacity > d THEN 95
         ELSE IF 10 * available_capacity > 7 * d THEN 85
         ELSE IF 2 * available_capacity > d THEN 70
         ELSE 50

\* calculate_capacity_adequacy_factor, in hundredths; the available capacity is
\* in 1/MultScale MW (capacity * multiplier)
calculate_capacity_adequacy_factor(available_capacity, demand_mw) ==
    IF demand_mw <= 0 THEN 100
    ELSE LET d == demand_mw * MultScale IN
         IF available_capacity >= 3 * d THEN 120
         ELSE IF available_capacity >= 2 * d THEN 110
         ELSE IF 2 * available_capacity >= 3 * d THEN 100
         ELSE IF available_capacity >= d THEN 95
         ELSE IF 10 * available_capacity >= 7 * d THEN 85
         ELSE IF 2 * available_capacity >= d THEN 70
         ELSE 50

\* The raw score summing capacity * proximity, the clean multiplier left out
raw_clean_score_nomult(node_lat, energy_sources) ==
    SumSeq([i \in 1..Len(energy_sources) |->
        energy_sources[i].capacity_mw * MultScale
          * proximity_decay_factor(
                pythagorean_distance(node_lat, energy_sources[i].latitude))])

\* The raw clean-generation score of a location, in 1/GenUnit MW
raw_clean_score(node_lat, energy_sources) ==
    SumSeq([i \in 1..Len(energy_sources) |->
        energy_sources[i].capacity_mw * energy_sources[i].clean_multiplier
          * proximity_decay_factor(
                pythagorean_distance(node_lat, energy_sources[i].latitude))])

\* The clean capacity within DISTANCE_FAIR, in 1/MultScale MW
nearby_capacity(node_lat, energy_sources) ==
    SumSeq([i \in 1..Len(energy_sources) |->
        IF pythagorean_distance(node_lat, energy_sources[i].latitude) < DISTANCE_FAIR
        THEN energy_sources[i].capacity_mw * energy_sources[i].clean_multiplier
        ELSE 0])

\* calculate_clean_gen_score assuming a demand of 100 MW when none is given
calculate_clean_gen_score_default_demand(node_lat, energy_sources, normalization_factor, demand_mw) ==
    IF energy_sources = <<>> THEN 0
    ELSE LET raw_score == raw_clean_score(node_lat, energy_sources)
             capped == Min2(raw_score, normalization_factor)
             demand == IF demand_mw = None THEN 100 ELSE demand_mw[1]
         IN IF demand > 0
            THEN RoundMulDiv(capped,
                     10 * calculate_capacity_adequacy_factor(
                              nearby_capacity(node_lat, energy_sources), demand),
                     normalization_factor)
            ELSE RoundMulDiv(capped, 1000, normalization_factor)

\* calculate_clean_gen_score, in tenths; normalization_factor in 1/GenUnit MW,
\* demand_mw an Optional
calculate_clean_gen_score(node_lat, energy_sources, normalization_factor, demand_mw) ==
    IF energy_sources = <<>> THEN 0
    ELSE LET raw_score == raw_clean_score(node_lat, energy_sources)
             \* base_score = min(100.0, raw_score / normalization_factor * 100.0)
             capped == Min2(raw_score, normalization_factor)
         IN IF demand_mw # None /\ demand_mw[1] > 0
            THEN RoundMulDiv(capped,
                     10 * calculate_capacity_adequacy_factor(
                              nearby_capacity(node_lat, energy_sources), demand_mw[1]),
                     normalization_factor)
            ELSE RoundMulDiv(capped, 1000, normalization_factor)

\* The raw transmission score of a location, in 1/TransUnit MW
raw_transmission_score(node_lat, power_plants) ==
    SumSeq([i \in 1..Len(power_plants) |->
        power_plants[i].nameplate_mw
          * transmission_decay_factor(
                pythagorean_distance(node_lat, power_plants[i].latitude),
                power_plants[i].nameplate_mw)])

\* calculate_transmission_score dividing by no less than the estimator's floor
\* of 1000 MW
calculate_transmission_score_floored(node_lat, power_plants, normalization_factor) ==
    IF power_plants = <<>> THEN 500
    ELSE LET floored == Max2(normalization_factor, 1000 * TransUnit)
         IN RoundMulDiv(Min2(raw_transmission_score(node_lat, power_plants), floored),
                        1000, floored)

\* calculate_transmission_score capping the raw score at twice the
\* normalization factor instead of at the factor
calculate_transmission_score_loose(node_lat, power_plants, normalization_factor) ==
    IF power_plants = <<>> THEN 500
    ELSE RoundMulDiv(Min2(raw_transmission_score(node_lat, power_plants),
                          2 * normalization_factor),
                     1000, normalization_factor)

\* calculate_transmission_score, in tenths; normalization_factor in 1/TransUnit MW
calculate_transmission_score(node_lat, power_plants, normalization_factor) ==
    IF power_plants = <<>> THEN 500
    ELSE RoundMulDiv(Min2(raw_transmission_score(node_lat, power_plants),
                          normalization_factor),
                     1000, normalization_factor)

----------------------------------------------------------------------------
(* scoring_utils.py: the normalization estimators *)

\* The floors and defaults of the two estimators (MW)
GEN_FLOOR_MW == 1
GEN_DEFAULT_MW == 100
TRANS_FLOOR_MW == 1000
TRANS_DEFAULT_MW == 5000

\* The percentile index rounded to the nearest instead of truncated
percentile_90_idx_rounded(n) == (9 * n + 5) \div 10 + 1

\* int(len(raw_scores) * 0.9), as a 1-based index
percentile_90_idx(n) == (9 * n) \div 10 + 1

\* The raw scores of the candidate nodes, in the order of all_nodes: the list
\* that the loop appends to, starting from []
raw_clean_scores(all_nodes, energy_sources) ==
    <<>> \o [i \in 1..Len(all_nodes) |-> raw_clean_score(all_nodes[i], energy_sources)]

raw_transmission_scores(all_nodes, power_plants) ==
    <<>> \o [i \in 1..Len(all_nodes) |->
                raw_transmission_score(all_nodes[i], power_plants)]

\* estimate_normalization_factor, in 1/GenUnit MW
estimate_normalization_factor(all_nodes, energy_sources) ==
    IF all_nodes = <<>> \/ energy_sources = <<>> THEN GEN_DEFAULT_MW * GenUnit
    ELSE LET raw_scores == raw_clean_scores(all_nodes, energy_sources)
             p90 == SortAsc(raw_scores)[percentile_90_idx(Len(raw_scores))]
         IN IF p90 < GEN_FLOOR_MW * GenUnit
            THEN \* max(raw_scores) or 100.0
                 (IF MaxSeq(raw_scores) # 0 THEN MaxSeq(raw_scores)
                  ELSE GEN_DEFAULT_MW * GenUnit)
            ELSE p90

\* estimate_transmission_normalization_factor without the second floor check:
\* the maximum is returned whatever its size
estimate_transmission_normalization_factor_nofloor(all_nodes, power_plants) ==
    IF all_nodes = <<>> \/ power_plants = <<>> THEN TRANS_DEFAULT_MW * TransUnit
    ELSE LET raw_scores == raw_transmission_scores(all_nodes, power_plants)
             p90 == SortAsc(raw_scores)[percentile_90_idx(Len(raw_scores))]
         IN IF p90 < TRANS_FLOOR_MW * TransUnit
            THEN MaxSeq(raw_scores)
            ELSE p90

\* estimate_transmission_normalization_factor, in 1/TransUnit MW
estimate_transmission_normalization_factor(all_nodes, power_plants) ==
    IF all_nodes = <<>> \/ power_plants = <<>> THEN TRANS_DEFAULT_MW * TransUnit
    ELSE LET raw_scores == raw_transmission_scores(all_nodes, power_plants)
             p90 == SortAsc(raw_scores)[percentile_90_idx(Len(raw_scores))]
         IN IF p90 < TRANS_FLOOR_MW * TransUnit
            THEN (IF MaxSeq(raw_scores) < TRANS_FLOOR_MW * TransUnit
                  THEN TRANS_DEFAULT_MW * TransUnit
                  ELSE MaxSeq(raw_scores))
            ELSE p90

\* raw_scores[percentile_90_idx] raises IndexError when the index is not one of
\* the list; otherwise the estimator returns its factor
estimate_normalization_factor_call(all_nodes, energy_sources) ==
    IF all_nodes # <<>> /\ energy_sources # <<>>
         /\ percentile_90_idx(Len(all_nodes)) > Len(all_nodes)
    THEN IndexError
    ELSE Ok(estimate_normalization_factor(all_nodes, energy_sources))

estimate_transmission_normalization_factor_call(all_nodes, power_plants) ==
    IF all_nodes # <<>> /\ power_plants # <<>>
         /\ percentile_90_idx(Len(all_nodes)) > Len(all_nodes)
    THEN IndexError
    ELSE Ok(estimate_transmission_normalization_factor(all_nodes, power_plants))

----------------------------------------------------------------------------
(* models.py: SitingWeights *)

\* 1.0 as a weight: the weights are whole multiples of the tolerance 1e-9
NanoPerUnit == 1000000000

\* 0.01 as a weight
WeightGrain == NanoPerUnit \div 100

\* math.isclose(a, b, rel_tol=1e-9) for a, b in units of 1e-9:
\* |a - b| <= 1e-9 * max(|a|, |b|), the left side being whole
IsClose(a, b) == Abs(a - b) <= Max2(Abs(a), Abs(b)) \div NanoPerUnit

\* validate_sum accepting every total of at least 1.0 (a one-sided comparison)
validate_sum_onesided(weights) ==
    LET total == weights.weight_clean + weights.weight_transmission
                   + weights.weight_reliability
    IN total >= NanoPerUnit - 1

\* SitingWeights.validate_sum: TRUE when it returns, FALSE when it raises
validate_sum(weights) ==
    LET total == weights.weight_clean + weights.weight_transmission
                   + weights.weight_reliability
    IN IsClose(total, NanoPerUnit)

----------------------------------------------------------------------------
(* siting_engine.py: the composite score *)

\* A product score * weight, score in thousandths and weight in 1e-9, is kept
\* exactly as <<hi, lo>> = hi * WeightGrain + lo with 0 <= lo < WeightGrain
\* (hi counts 1e-5 of a score point).
WideMul(score, weight) ==
    LET a == score * (weight \div WeightGrain)
        b == score * (weight % WeightGrain)
    IN <<a + (b \div WeightGrain), b % WeightGrain>>

WideAdd(x, y) ==
    LET lo == x[2] + y[2]
    IN <<x[1] + y[1] + (lo \div WeightGrain), lo % WeightGrain>>

\* round(x, 1) of a product or sum of products, as tenths
WideRound1(x) ==
    LET q == x[1] \div 10000
        r == x[1] % 10000
    IN IF r > 5000 \/ (r = 5000 /\ x[2] > 0) THEN q + 1
       ELSE IF r < 5000 THEN q
       ELSE IF q % 2 = 0 THEN q ELSE q + 1

\* The composite as the sum of the contributions already rounded for display
composite_of_rounded(clean_contribution, transmission_contribution, reliability_contribution) ==
    WideRound1(clean_contribution) + WideRound1(transmission_contribution)
      + WideRound1(reliability_contribution)

\* composite = clean + transmission + reliability contribution; round(composite, 1)
composite_rounded(clean_contribution, transmission_contribution, reliability_contribution) ==
    WideRound1(WideAdd(WideAdd(clean_contribution, transmission_contribution),
                       reliability_contribution))

\* The ScoreBreakdown built from three scores (thousandths) and the weights: the
\* contributions and the composite are in tenths, the scores in thousandths
ScoreBreakdown(clean, transmission, reliability, weights) ==
    LET clean_contribution == WideMul(clean, weights.weight_clean)
        transmission_contribution == WideMul(transmission, weights.weight_transmission)
        reliability_contribution == WideMul(reliability, weights.weight_reliability)
    IN [ clean_gen_contribution |-> WideRound1(clean_contribution),
         transmission_contribution |-> WideRound1(transmission_contribution),
         reliability_contribution |-> WideRound1(reliability_contribution),
         composite_score |-> composite_rounded(clean_contribution,
                                 transmission_contribution, reliability_contribution),
         weights_used |-> weights ]

\* calculate_composite_score: the value returned or the error raised, and the
\* steps run in their order
calculate_composite_score(node, weights) ==
    IF ~validate_sum(weights)
    THEN [ret |-> ValueError, trace |-> <<"validate_sum">>]
    ELSE [ret |-> Ok([clean_gen_score |-> node.clean_gen,
                      transmission_score |-> node.transmission_headroom,
                      reliability_score |-> node.reliability]
                     @@ ScoreBreakdown(node.clean_gen, node.transmission_headroom,
                                       node.reliability, weights)),
          trace |-> <<"validate_sum", "contributions", "composite">>]

----------------------------------------------------------------------------
(* grid_data.py: the mock grid nodes *)

\* generate_mock_grid_nodes: the latitudes of the 40 nodes, in 1/111 degree
\* (45.523 -> 5053); their longitudes are dropped
MockNodeLatitudes ==
    << 5053, 5284, 4501, 4082, 3909, 3552, 3360, 4618, 4510, 5187,
       3768, 3971, 4411, 3894, 4778, 3713, 4015, 4524, 3577, 4388,
       3937, 4324, 4579, 4833, 5198, 4489, 4155, 4361, 3355, 3585,
       3721, 3379, 5203, 4566, 4841, 5074, 4702, 4636, 4919, 4913 >>

\* generate_mock_grid_nodes: the clean_gen, transmission_headroom and
\* reliability of the 40 nodes, in whole points
MockNodeCleanGen ==
    <<   0,   0,   0,   0,   0,   0, 1000,   0, 322,   0,
         0, 1000,  0,   0,   0,   0,   0,   0,   0,   0,
         0,   0,   0,   0,   0, 354, 1000, 1000, 326, 502,
         0,   0,   0,   0,   0,   0,   0,   0,   0,   0 >>

MockNodeTransmission ==
    << 74, 82, 55, 48, 88, 92, 71, 79, 85, 73,
       62, 68, 77, 81, 59, 84, 78, 76, 81, 72,
       83, 85, 80, 77, 74, 67, 71, 65, 79, 73,
       69, 66, 70, 82, 75, 76, 58, 62, 64, 61 >>

MockNodeReliability ==
    << 68, 71, 58, 62, 72, 75, 78, 81, 83, 79,
       76, 74, 70, 67, 82, 73, 69, 75, 71, 68,
       76, 78, 80, 77, 75, 84, 79, 81, 72, 74,
       77, 75, 66, 73, 70, 69, 85, 83, 78, 80 >>

\* generate_mock_grid_nodes: the nodes, ids 1 to 40, scores in thousandths
\* (MockNodeCleanGen is in tenths: 32.2 is 322)
generate_mock_grid_nodes ==
    <<>> \o [i \in 1..Len(MockNodeLatitudes) |->
                [id |-> i, latitude |-> MockNodeLatitudes[i],
                 clean_gen |-> 100 * MockNodeCleanGen[i],
                 transmission_headroom |-> 1000 * MockNodeTransmission[i],
                 reliability |-> 1000 * MockNodeReliability[i]]]

\* The latitudes of a list of nodes (node_coords)
node_coords(nodes) == <<>> \o [i \in 1..Len(nodes) |-> nodes[i].latitude]

\* An energy source has coordinates once it is geocoded
has_coordinates(s) == s.coordinates # <<>>

\* The (latitude, capacity, multiplier) tuples of the geocoded sources
valid_source_data(energy_sources) ==
    LET valid_sources == SelectSeq(energy_sources, has_coordinates)
    IN <<>> \o [i \in 1..Len(valid_sources) |->
                  [latitude |-> valid_sources[i].coordinates[1],
                   capacity_mw |-> valid_sources[i].ppa_capacity_mw,
                   clean_multiplier |-> valid_sources[i].clean_multiplier]]

\* calculate_real_clean_gen_scores writing the new scores into the list it was
\* given
calculate_real_clean_gen_scores_in_place(nodes, energy_sources, demand_mw, import_ok) ==
    IF ~import_ok \/ valid_source_data(energy_sources) = <<>>
    THEN [ret |-> nodes, nodes |-> nodes]
    ELSE LET data == valid_source_data(energy_sources)
             normalization_factor == estimate_normalization_factor(node_coords(nodes), data)
             updated_nodes ==
                 <<>> \o [i \in 1..Len(nodes) |->
                     [nodes[i] EXCEPT !.clean_gen =
                         100 * calculate_clean_gen_score(nodes[i].latitude, data,
                                   normalization_factor, demand_mw)]]
         IN [ret |-> updated_nodes, nodes |-> updated_nodes]

\* calculate_real_clean_gen_scores: the list returned (ret) and the list given
\* as it is after the call (nodes).  import_ok: the import of scoring_utils
\* inside the try block succeeds; every error returns the list given.
calculate_real_clean_gen_scores(nodes, energy_sources, demand_mw, import_ok) ==
    IF ~import_ok \/ valid_source_data(energy_sources) = <<>>
    THEN [ret |-> nodes, nodes |-> nodes]
    ELSE LET data == valid_source_data(energy_sources)
             normalization_factor == estimate_normalization_factor(node_coords(nodes), data)
             \* node.model_copy(update={"clean_gen": new_score})
             updated_nodes ==
                 <<>> \o [i \in 1..Len(nodes) |->
                     [nodes[i] EXCEPT !.clean_gen =
                         100 * calculate_clean_gen_score(nodes[i].latitude, data,
                                   normalization_factor, demand_mw)]]
         IN [ret |-> updated_nodes, nodes |-> nodes]

\* calculate_real_transmission_scores: the list returned and the list given as
\* it is after the call
calculate_real_transmission_scores(nodes, power_plants, import_ok) ==
    IF ~import_ok \/ power_plants = <<>>
    THEN [ret |-> nodes, nodes |-> nodes]
    ELSE LET normalization_factor ==
                 estimate_transmission_normalization_factor(node_coords(nodes), power_plants)
             \* node.model_copy(update={"transmission_headroom": new_score})
             updated_nodes ==
                 <<>> \o [i \in 1..Len(nodes) |->
                     [nodes[i] EXCEPT !.transmission_headroom =
                         100 * calculate_transmission_score(nodes[i].latitude,
                                   power_plants, normalization_factor)]]
         IN [ret |-> updated_nodes, nodes |-> nodes]

\* generate_grid_nodes_with_real_scores; energy_sources and power_plants are
\* lists, the empty list standing for None as well (both are falsy)
generate_grid_nodes_with_real_scores(energy_sources, power_plants) ==
    LET with_clean_gen ==
            IF energy_sources # <<>>
            THEN calculate_real_clean_gen_scores(generate_mock_grid_nodes,
                     energy_sources, None, TRUE).ret
            ELSE generate_mock_grid_nodes
    IN IF power_plants # <<>>
       THEN calculate_real_transmission_scores(with_clean_gen, power_plants, TRUE).ret
       ELSE with_clean_gen

\* get_node_by_id: the node of the list with the id, or ValueError
get_node_by_id(node_id, nodes) ==
    IF \E i \in 1..Len(nodes) : nodes[i].id = node_id
    THEN Ok(nodes[CHOOSE i \in 1..Len(nodes) :
                     /\ nodes[i].id = node_id
                     /\ \A j \in 1..(i - 1) : nodes[j].id # node_id])
    ELSE ValueError

----------------------------------------------------------------------------
(* siting_engine.py: scores for arbitrary coordinates *)

\* _calculate_reliability_score leaving out the plants at exactly 200 km
calculate_reliability_score_strict(latitude, power_plants) ==
    IF power_plants = <<>> THEN 50000
    ELSE LET Near(plant) == pythagorean_distance(latitude, plant.latitude) < 200
             nearby_plants == SelectSeq(power_plants, Near)
             count_score == Min2(100000, Len(nearby_plants) * 5000)
             fuel_types == { nearby_plants[i].primary_fuel_category :
                               i \in 1..Len(nearby_plants) }
             diversity_score == Min2(100000, Cardinality(fuel_types) * 20000)
             total_capacity == SumSeq([i \in 1..Len(nearby_plants) |->
                                          nearby_plants[i].nameplate_mw])
             capacity_score == Min2(100000, total_capacity * 10)
         IN IF nearby_plants = <<>> THEN 30000
            ELSE (count_score * 4 + diversity_score * 3 + capacity_score * 3) \div 10

\* _calculate_reliability_score, in thousandths (it is not rounded)
calculate_reliability_score(latitude, power_plants) ==
    IF power_plants = <<>> THEN 50000
    ELSE LET Near(plant) == pythagorean_distance(latitude, plant.latitude) <= 200
             nearby_plants == SelectSeq(power_plants, Near)
             count_score == Min2(100000, Len(nearby_plants) * 5000)
             fuel_types == { nearby_plants[i].primary_fuel_category :
                               i \in 1..Len(nearby_plants) }
             diversity_score == Min2(100000, Cardinality(fuel_types) * 20000)
             total_capacity == SumSeq([i \in 1..Len(nearby_plants) |->
                                          nearby_plants[i].nameplate_mw])
             capacity_score == Min2(100000, total_capacity * 10)
         IN IF nearby_plants = <<>> THEN 30000
            ELSE (count_score * 4 + diversity_score * 3 + capacity_score * 3) \div 10

\* The clean plants as (lat, lon, capacity, 1.0) tuples
source_data(power_plants) ==
    LET clean_plants == SelectSeq(power_plants, is_clean)
    IN [i \in 1..Len(clean_plants) |->
           [latitude |-> clean_plants[i].latitude,
            capacity_mw |-> clean_plants[i].nameplate_mw,
            clean_multiplier |-> MultScale]]

\* The clean-generation score of calculate_scores_from_coordinates, in tenths
coordinates_clean_gen_score(latitude, power_plants, demand_mw) ==
    IF power_plants # <<>> /\ source_data(power_plants) # <<>>
    THEN calculate_clean_gen_score(latitude, source_data(power_plants),
             estimate_normalization_factor(MockNodeLatitudes, source_data(power_plants)),
             demand_mw)
    ELSE 0

\* The transmission score of calculate_scores_from_coordinates, in tenths
coordinates_transmission_score(latitude, power_plants) ==
    IF power_plants # <<>>
    THEN calculate_transmission_score(latitude, power_plants,
             estimate_transmission_normalization_factor(MockNodeLatitudes, power_plants))
    ELSE 0

\* calculate_scores_from_coordinates scoring clean generation from the
\* energy_sources it is given whenever there are any
calculate_scores_from_coordinates_with_sources(latitude, energy_sources, power_plants, weights, demand_profile) ==
    IF ~validate_sum(weights)
    THEN [ret |-> ValueError, trace |-> <<"validate_sum">>]
    ELSE LET demand_mw == IF demand_profile # None
                          THEN Some(demand_profile[1].size_mw) ELSE None
             clean_gen_score ==
                 IF energy_sources # <<>>
                 THEN calculate_clean_gen_score(latitude, energy_sources,
                          estimate_normalization_factor(MockNodeLatitudes, energy_sources),
                          demand_mw)
                 ELSE coordinates_clean_gen_score(latitude, power_plants, demand_mw)
             transmission_score == coordinates_transmission_score(latitude, power_plants)
             reliability_score == calculate_reliability_score(latitude, power_plants)
         IN [ret |-> Ok([clean_gen_score |-> clean_gen_score * 100,
                         transmission_score |-> transmission_score * 100,
                         reliability_score |->
                             RoundMilliToTenths(reliability_score) * 100]
                        @@ ScoreBreakdown(clean_gen_score * 100, transmission_score * 100,
                                          reliability_score, weights)),
             trace |-> <<"validate_sum", "clean_gen", "transmission", "reliability",
                         "contributions", "composite">>]

\* calculate_scores_from_coordinates: the value returned or the error raised,
\* and the steps run in their order.  energy_sources is accepted and not read.
calculate_scores_from_coordinates(latitude, energy_sources, power_plants, weights, demand_profile) ==
    IF ~validate_sum(weights)
    THEN [ret |-> ValueError, trace |-> <<"validate_sum">>]
    ELSE LET demand_mw == IF demand_profile # None
                          THEN Some(demand_profile[1].size_mw) ELSE None
             clean_gen_score ==
                 coordinates_clean_gen_score(latitude, power_plants, demand_mw)
             transmission_score == coordinates_transmission_score(latitude, power_plants)
             reliability_score == calculate_reliability_score(latitude, power_plants)
         IN [ret |-> Ok([clean_gen_score |-> clean_gen_score * 100,
                         transmission_score |-> transmission_score * 100,
                         reliability_score |->
                             RoundMilliToTenths(reliability_score) * 100]
                        @@ ScoreBreakdown(clean_gen_score * 100, transmission_score * 100,
                                          reliability_score, weights)),
             trace |-> <<"validate_sum", "clean_gen", "transmission", "reliability",
                         "contributions", "composite">>]

----------------------------------------------------------------------------
(* siting_engine.py: ranking, percentile, alternatives, comparison *)

ZeroDivisionError == [status |-> "ZeroDivisionError"]
NotFound == [status |-> "HTTP 404"]
BadRequest == [status |-> "HTTP 400"]

\* breakdown.composite_score of a node under valid weights, in tenths
composite_score_of(node, weights) ==
    calculate_composite_score(node, weights).ret.value.composite_score

\* scored_nodes: one (node, score) pair per node, in the order of nodes
scored_nodes(nodes, weights) ==
    [i \in 1..Len(nodes) |->
        [node |-> nodes[i], score |-> composite_score_of(nodes[i], weights)]]

\* A pair put into a descending list before the pairs it ties with
insert_before_ties(x, q) ==
    LET pos == Cardinality({ i \in 1..Len(q) : q[i].score > x.score })
    IN SubSeq(q, 1, pos) \o <<x>> \o SubSeq(q, pos + 1, Len(q))

\* A pair put into a descending list after the pairs it ties with: the place
\* the stable sort gives to a pair that came later in the input
insert_after_ties(x, q) ==
    LET pos == Cardinality({ i \in 1..Len(q) : q[i].score >= x.score })
    IN SubSeq(q, 1, pos) \o <<x>> \o SubSeq(q, pos + 1, Len(q))

\* list.sort(key=score, reverse=True): stable, descending
RECURSIVE sort_descending(_)
sort_descending(q) ==
    IF q = <<>> THEN <<>>
    ELSE insert_after_ties(q[Len(q)], sort_descending(SubSeq(q, 1, Len(q) - 1)))

\* rank_sites: the weights are validated by the first calculate_composite_score,
\* so an empty list is ranked whatever the weights
rank_sites(nodes, weights) ==
    IF nodes = <<>> THEN Ok(<<>>)
    ELSE IF ~validate_sum(weights) THEN ValueError
    ELSE Ok(sort_descending(scored_nodes(nodes, weights)))

\* _calculate_percentile counting the sites the node ties with as beaten
calculate_percentile_inclusive(node, all_nodes, weights) ==
    LET ranked == rank_sites(all_nodes, weights) IN
    IF ranked.status # "ok" \/ ~validate_sum(weights) THEN ValueError
    ELSE LET scores == [i \in 1..Len(ranked.value) |-> ranked.value[i].score]
             node_score == composite_score_of(node, weights)
             better_than == Cardinality({ i \in 1..Len(scores) : node_score >= scores[i] })
         IN IF Len(scores) = 0 THEN ZeroDivisionError
            ELSE Ok(RoundMulDiv(better_than, 1000, Len(scores)))

\* _calculate_percentile, in tenths: round(better_than / len(scores) * 100, 1)
calculate_percentile(node, all_nodes, weights) ==
    LET ranked == rank_sites(all_nodes, weights) IN
    IF ranked.status # "ok" \/ ~validate_sum(weights) THEN ValueError
    ELSE LET scores == [i \in 1..Len(ranked.value) |-> ranked.value[i].score]
             node_score == composite_score_of(node, weights)
             better_than == Cardinality({ i \in 1..Len(scores) : node_score > scores[i] })
         IN IF Len(scores) = 0 THEN ZeroDivisionError
            ELSE Ok(RoundMulDiv(better_than, 1000, Len(scores)))

\* q[:limit]
slice_to(q, limit) ==
    IF limit >= 0 THEN SubSeq(q, 1, Min2(limit, Len(q)))
    ELSE SubSeq(q, 1, Max2(0, Len(q) + limit))

\* The dict of one alternative (name, region and state are left out)
alternative_dict(pair) ==
    [id |-> pair.node.id, composite_score |-> pair.score,
     clean_gen |-> pair.node.clean_gen,
     transmission_headroom |-> pair.node.transmission_headroom,
     reliability |-> pair.node.reliability]

\* The ranked pairs that are not the reference, then the first limit of them
top_alternatives(ranked, reference_id, limit) ==
    LET Other(pair) == pair.node.id # reference_id
    IN slice_to(SelectSeq(ranked, Other), limit)

\* The first limit ranked pairs, then those of them that are not the reference
top_alternatives_sliced_first(ranked, reference_id, limit) ==
    LET Other(pair) == pair.node.id # reference_id
    IN SelectSeq(slice_to(ranked, limit), Other)

alternative_dicts(pairs) == [i \in 1..Len(pairs) |-> alternative_dict(pairs[i])]

\* _find_alternatives taking the top limit before leaving out the reference
find_alternatives_sliced_first(reference_node, all_nodes, weights, limit) ==
    LET ranked == rank_sites(all_nodes, weights) IN
    IF ranked.status # "ok" THEN ValueError
    ELSE Ok(alternative_dicts(
                top_alternatives_sliced_first(ranked.value, reference_node.id, limit)))

\* _find_alternatives
find_alternatives(reference_node, all_nodes, weights, limit) ==
    LET ranked == rank_sites(all_nodes, weights) IN
    IF ranked.status # "ok" THEN ValueError
    ELSE Ok(alternative_dicts(top_alternatives(ranked.value, reference_node.id, limit)))

\* The ids of generate_mock_grid_nodes, where get_node_by_id looks the site up
MockNodeIds == 1..Len(MockNodeLatitudes)

\* main.py get_alternative_sites over the server's grid_nodes
get_alternative_sites(grid_nodes, site_id, weights, limit) ==
    IF ~validate_sum(weights) THEN BadRequest
    ELSE IF site_id \notin MockNodeIds THEN NotFound
    ELSE Ok([reference_site_id |-> site_id,
             alternatives |->
                 alternative_dicts(top_alternatives(
                     sort_descending(scored_nodes(grid_nodes, weights)), site_id, limit)),
             weights_used |-> weights])

\* compare_scenarios measuring every site against the first evaluation
compare_scenarios_from_first(evaluations) ==
    IF evaluations = <<>> THEN ValueError
    ELSE LET scores == [i \in 1..Len(evaluations) |-> evaluations[i].composite_score]
             best_eval == evaluations[1]
             ids == { evaluations[i].site_id : i \in 1..Len(evaluations) }
             Last(id) == CHOOSE i \in 1..Len(evaluations) :
                            /\ evaluations[i].site_id = id
                            /\ \A j \in (i + 1)..Len(evaluations) :
                                   evaluations[j].site_id # id
         IN Ok([best_site_id |-> best_eval.site_id,
                score_range |-> <<-MaxSeq([i \in 1..Len(scores) |-> -scores[i]]),
                                  MaxSeq(scores)>>,
                score_deltas |->
                    [id \in ids |-> evaluations[Last(id)].composite_score
                                      - best_eval.composite_score]])

\* compare_scenarios over evaluations (site id, composite score in tenths).
\* max() returns the first evaluation of the largest score; the dict of deltas
\* keeps, for a site id evaluated more than once, its last evaluation.
compare_scenarios(evaluations) ==
    IF evaluations = <<>> THEN ValueError
    ELSE LET scores == [i \in 1..Len(evaluations) |-> evaluations[i].composite_score]
             best_eval == evaluations[CHOOSE i \in 1..Len(evaluations) :
                              /\ scores[i] = MaxSeq(scores)
                              /\ \A j \in 1..(i - 1) : scores[j] < scores[i]]
             ids == { evaluations[i].site_id : i \in 1..Len(evaluations) }
             Last(id) == CHOOSE i \in 1..Len(evaluations) :
                            /\ evaluations[i].site_id = id
                            /\ \A j \in (i + 1)..Len(evaluations) :
                                   evaluations[j].site_id # id
         IN Ok([best_site_id |-> best_eval.site_id,
                score_range |-> <<-MaxSeq([i \in 1..Len(scores) |-> -scores[i]]),
                                  MaxSeq(scores)>>,
                score_deltas |->
                    [id \in ids |-> evaluations[Last(id)].composite_score
                                      - best_eval.composite_score]])

----------------------------------------------------------------------------
(* power_plants_data.py: statistics and GeoJSON *)

\* PowerPlant.to_geojson_feature; the display fields (name, colour) are left out
to_geojson_feature(plant) ==
    [type |-> "Feature", id |-> plant.oris_code,
     properties |-> [oris_code |-> plant.oris_code,
                     primary_fuel |-> plant.primary_fuel,
                     primary_fuel_category |-> plant.primary_fuel_category,
                     nameplate_mw |-> 10 * plant.nameplate_mw,
                     annual_net_gen_mwh |-> plant.annual_net_gen_mwh,
                     is_renewable |-> is_renewable(plant),
                     is_clean |-> is_clean(plant)],
     geometry |-> [type |-> "Point", coordinates |-> <<plant.latitude>>]]

\* get_fuel_category_stats: for each category of the plants, the count and the
\* totals (capacity in tenths of a MW), and is_clean of its first plant
get_fuel_category_stats(plants) ==
    LET Of(category) == SelectSeq(plants, LAMBDA p : p.primary_fuel_category = category)
    IN [category \in { plants[i].primary_fuel_category : i \in 1..Len(plants) } |->
           [count |-> Len(Of(category)),
            total_capacity_mw |->
                10 * SumSeq([i \in 1..Len(Of(category)) |-> Of(category)[i].nameplate_mw]),
            total_generation_mwh |->
                SumSeq([i \in 1..Len(Of(category)) |-> Of(category)[i].annual_net_gen_mwh]),
            is_clean |-> is_clean(Of(category)[1])]]

\* The metadata of power_plants_to_geojson; capacity and percentage in tenths
geojson_metadata(plants) ==
    LET clean_plants == SelectSeq(plants, is_clean)
        clean_count == Len(clean_plants)
    IN [total_plants |-> Len(plants),
        clean_energy_capacity_mw |->
            10 * SumSeq([i \in 1..clean_count |-> clean_plants[i].nameplate_mw]),
        clean_energy_generation_mwh |->
            SumSeq([i \in 1..clean_count |-> clean_plants[i].annual_net_gen_mwh]),
        clean_count |-> clean_count,
        clean_percentage |->
            IF plants # <<>> THEN RoundMulDiv(clean_count, 1000, Len(plants)) ELSE 0,
        fuel_categories |-> get_fuel_category_stats(plants),
        note |-> "Only WND, SUN, WAT, GEO counted as clean energy"]

\* power_plants_to_geojson: a dict, the key metadata present when asked for
power_plants_to_geojson(plants, include_metadata) ==
    LET features == <<>> \o [i \in 1..Len(plants) |-> to_geojson_feature(plants[i])]
    IN IF include_metadata
       THEN [type |-> "FeatureCollection", features |-> features,
             metadata |-> geojson_metadata(plants)]
       ELSE [type |-> "FeatureCollection", features |-> features]

----------------------------------------------------------------------------
(* main.py: loading the data, evaluating sites and locations *)

FileNotFoundError == [status |-> "FileNotFoundError"]
ServerError == [status |-> "HTTP 500"]

\* load_power_plants_from_json: the plants of the file, or FileNotFoundError
load_power_plants_from_json(files) ==
    IF files.plants = None THEN FileNotFoundError ELSE Ok(files.plants[1])

\* load_energy_sources: the geocoded sources of the file; open() fails without it
load_energy_sources(files) ==
    IF files.sources = None THEN FileNotFoundError ELSE Ok(files.sources[1])

\* get_all_power_plants: the value returned or the error raised, and
\* _cached_plants after the call
get_all_power_plants(cache, files, reload) ==
    IF cache = None \/ reload
    THEN LET loaded == load_power_plants_from_json(files)
         IN IF loaded.status = "ok"
            THEN [ret |-> loaded, cached_plants |-> Some(loaded.value)]
            ELSE [ret |-> loaded, cached_plants |-> cache]
    ELSE [ret |-> Ok(cache[1]), cached_plants |-> cache]

\* startup_event: the module-level names and the cache after it.  Every error
\* of a load leaves the empty list; so does the division by len(power_plants)
\* in the log line when the file holds no plant.
startup_event(m, cache, files) ==
    LET sources == load_energy_sources(files)
        loaded_sources == IF sources.status = "ok" THEN sources.value ELSE <<>>
        got == get_all_power_plants(cache, files, FALSE)
        loaded_plants == IF got.ret.status = "ok" THEN got.ret.value ELSE <<>>
    IN [main |-> [m EXCEPT !.energy_sources = loaded_sources,
                           !.power_plants = loaded_plants,
                           !.grid_nodes = generate_grid_nodes_with_real_scores(
                                              loaded_sources, loaded_plants)],
        cached_plants |-> got.cached_plants]

\* reload_energy_sources: energy_sources and grid_nodes are declared global,
\* power_plants is not, so the plants loaded are bound to a local name and the
\* module-level power_plants keeps its value
reload_energy_sources(m, cache, files) ==
    LET sources == load_energy_sources(files) IN
    IF sources.status # "ok"
    THEN [main |-> m, cached_plants |-> cache, ret |-> ServerError]
    ELSE LET got == get_all_power_plants(cache, files, TRUE)
             reloaded == [m EXCEPT !.energy_sources = sources.value]
         IN IF got.ret.status # "ok"
            THEN [main |-> reloaded, cached_plants |-> got.cached_plants,
                  ret |-> ServerError]
            ELSE LET local_power_plants == got.ret.value
                     nodes == generate_grid_nodes_with_real_scores(
                                  sources.value, local_power_plants)
                 IN [main |-> [reloaded EXCEPT !.grid_nodes = nodes],
                     cached_plants |-> got.cached_plants,
                     ret |-> Ok([status |-> "success",
                                 energy_sources_loaded |-> Len(sources.value),
                                 power_plants_loaded |-> Len(local_power_plants),
                                 grid_nodes_updated |-> Len(nodes)])]

\* SitingEngine.evaluate_site under validated weights: the breakdown of the
\* node, and its percentile and alternatives among all_nodes (the nearby plants
\* and the notes are left out)
evaluate_site(node, weights, demand_profile, all_nodes) ==
    [site |-> node, weights |-> weights, demand_profile |-> demand_profile,
     score_breakdown |-> calculate_composite_score(node, weights).ret.value,
     percentile_rank |->
         IF all_nodes # <<>>
         THEN Some(calculate_percentile(node, all_nodes, weights).value) ELSE None,
     alternative_sites |->
         IF all_nodes # <<>> THEN find_alternatives(node, all_nodes, weights, 5).value
         ELSE <<>>]

\* POST /api/siting/evaluate: get_node_by_id(request.site_id) is called without
\* a list and looks the site up among generate_mock_grid_nodes(); ValueError
\* (no such node, weights not summing to 1.0) is answered with 404
main_evaluate_site(m, request) ==
    LET node == get_node_by_id(request.site_id, generate_mock_grid_nodes) IN
    IF node.status # "ok" \/ ~validate_sum(request.weights) THEN NotFound
    ELSE Ok(evaluate_site(node.value, request.weights, request.demand_profile,
                          m.grid_nodes))

\* GridNode declares its three scores with ge=0 and le=100
grid_node_score_valid(score) == 0 <= score /\ score <= 100 * 1000

\* POST /api/siting/evaluate-location: the temporary GridNode is validated, and
\* its validation error is a ValueError, answered with 400
evaluate_location(m, request) ==
    IF ~validate_sum(request.weights) THEN BadRequest
    ELSE LET score_breakdown ==
                 calculate_scores_from_coordinates(request.latitude, m.energy_sources,
                     m.power_plants, request.weights, request.demand_profile).ret.value
         IN IF ~(/\ grid_node_score_valid(score_breakdown.clean_gen_score)
                 /\ grid_node_score_valid(score_breakdown.transmission_score)
                 /\ grid_node_score_valid(score_breakdown.reliability_score))
            THEN BadRequest
            ELSE Ok([site |-> [id |-> -1, latitude |-> request.latitude,
                               clean_gen |-> score_breakdown.clean_gen_score,
                               transmission_headroom |-> score_breakdown.transmission_score,
                               reliability |-> score_breakdown.reliability_score],
                     weights |-> request.weights,
                     demand_profile |-> request.demand_profile,
                     score_breakdown |-> score_breakdown,
                     percentile_rank |-> None,
                     alternative_sites |-> <<>>])

\* One row of GET /api/siting/rankings
ranking_row(ranked, i) ==
    [rank |-> i, id |-> ranked[i].node.id, composite_score |-> ranked[i].score,
     clean_gen |-> ranked[i].node.clean_gen,
     transmission_headroom |-> ranked[i].node.transmission_headroom,
     reliability |-> ranked[i].node.reliability]

\* GET /api/siting/rankings over the loaded grid_nodes; limit is an Optional
get_site_rankings(m, weights, limit) ==
    IF ~validate_sum(weights) THEN BadRequest
    ELSE LET ranked == rank_sites(m.grid_nodes, weights).value
             shown == IF limit # None THEN slice_to(ranked, limit[1]) ELSE ranked
         IN Ok([rankings |-> <<>> \o [i \in 1..Len(shown) |-> ranking_row(shown, i)],
                total_sites |-> Len(m.grid_nodes),
                weights_used |-> weights])

----------------------------------------------------------------------------
(* main.py: the saved scenarios *)

\* POST /api/siting/scenarios/save: the list after the append, and the answer
save_scenario(saved_scenarios, evaluation) ==
    [saved_scenarios |-> Append(saved_scenarios, evaluation),
     ret |-> Ok([status |-> "saved", scenario_id |-> Len(saved_scenarios),
                 total_saved |-> Len(saved_scenarios) + 1])]

\* DELETE /api/siting/scenarios/clear
clear_saved_scenarios(saved_scenarios) ==
    [saved_scenarios |-> <<>>,
     ret |-> Ok([status |-> "cleared", scenarios_deleted |-> Len(saved_scenarios)])]

\* POST /api/siting/scenarios/compare: the answer, and the evaluations the ids
\* were resolved to (saved_scenarios[sid], counted from 0)
main_compare_scenarios(saved_scenarios, scenario_ids) ==
    IF scenario_ids = <<>> THEN [ret |-> BadRequest, evaluations |-> <<>>]
    ELSE IF \E k \in 1..Len(scenario_ids) :
                scenario_ids[k] >= Len(saved_scenarios) \/ scenario_ids[k] < 0
    THEN [ret |-> NotFound, evaluations |-> <<>>]
    ELSE LET evaluations ==
                 [k \in 1..Len(scenario_ids) |-> saved_scenarios[scenario_ids[k] + 1]]
         IN [ret |-> compare_scenarios(evaluations), evaluations |-> evaluations]

----------------------------------------------------------------------------
(* Inputs *)

\* Largest distance tried (km): past TRANSMISSION_LONG
MaxDistance == 520

\* Plant capacities tried (MW): both sides of every class boundary
PlantCapacities == {0, 1, 50, 99, 100, 300, 499, 500, 600, 999, 1000, 2000}

ProximityCalls ==
    { [op |-> "proximity_decay_factor", distance_km |-> d] : d \in 0..MaxDistance }

TransmissionDecayCalls ==
    { [op |-> "transmission_decay_factor", distance_km |-> d, plant_capacity_mw |-> c] :
        d \in 0..MaxDistance, c \in PlantCapacities }

\* Scores of the sites tried (thousandths of a point)
SiteScores == {0, 33300, 74500, 100000}

\* Weights tried: 0, 0.2, 0.3, 0.4, 0.5, and 0.3 + 1e-9, 0.3 + 2e-9
WeightValues == {0, 2 * WeightGrain * 10, 3 * WeightGrain * 10, 4 * WeightGrain * 10,
                 5 * WeightGrain * 10, 3 * WeightGrain * 10 + 1, 3 * WeightGrain * 10 + 2}

SitingWeights(wc, wt, wr) ==
    [weight_clean |-> wc, weight_transmission |-> wt, weight_reliability |-> wr]

AllWeights == { SitingWeights(wc, wt, wr) : wc \in WeightValues, wt \in WeightValues,
                                            wr \in WeightValues }

GridNodes ==
    { [id |-> 1, clean_gen |-> c, transmission_headroom |-> t, reliability |-> r] :
        c \in SiteScores, t \in SiteScores, r \in SiteScores }

CompositeCalls ==
    { [op |-> "calculate_composite_score", node |-> n, weights |-> w] :
        n \in GridNodes, w \in AllWeights }

\* Longest catalog enumerated, and longest list of candidate nodes
MaxPlants == 2
MaxNodes == 12

SeqsUpTo(S, n) == UNION { [1..k -> S] : k \in 0..n }

PowerPlant(lat, mw, fuel, category) ==
    [latitude |-> lat, nameplate_mw |-> mw, primary_fuel |-> fuel,
     primary_fuel_category |-> category]

PlantKinds ==
    { PowerPlant(4500, 600, "SUN", "SOLAR"),
      PowerPlant(3000, 30, "WND", "WIND"),
      PowerPlant(4650, 2000, "NG", "GAS"),
      PowerPlant(4300, 1000, "NUC", "NUCLEAR"),
      PowerPlant(4700, 50, "SUN", "SOLAR"),
      PowerPlant(4500, 0, "WAT", "HYDRO") }

Catalogs == SeqsUpTo(PlantKinds, MaxPlants)

EnergySource(lat, mw, multiplier) ==
    [latitude |-> lat, capacity_mw |-> mw, clean_multiplier |-> multiplier]

\* Multipliers: 20 is 1.0 (solar, wind), 19 is 0.95 (hydro), 18 is 0.9 (nuclear)
SourceKinds ==
    { EnergySource(4460, 300, 20),
      EnergySource(4500, 1, 18),
      EnergySource(4575, 600, 19),
      EnergySource(4750, 52, 20),
      EnergySource(4250, 2000, 20),
      EnergySource(4500, 400, 0) }

SourceLists == SeqsUpTo(SourceKinds, MaxPlants)

\* Locations scored: among the plants, at the edge, and far from every plant
Locations == {4500, 3000, 4800, 2000}

\* Candidate node lists: runs of the mock nodes
NodeLists ==
    { SubSeq(MockNodeLatitudes, a, a + n - 1) : a \in {1, 3, 9}, n \in 0..MaxNodes }

\* Normalization factors tried, in raw units: one unit, half a MW, and whole MW
GenFactors == {1, GenUnit \div 2, 100 * GenUnit, 300 * GenUnit, 600 * GenUnit}
TransFactors == {1, 564 * TransUnit, 1000 * TransUnit, 5000 * TransUnit}

Demands == {None, Some(0), Some(100), Some(1000)}

DemandProfiles == {None, Some([size_mw |-> 10]), Some([size_mw |-> 1000])}

\* SitingEngine.default_weights: 0.4, 0.3, 0.3
engine_default_weights ==
    SitingWeights(4 * WeightGrain * 10, 3 * WeightGrain * 10, 3 * WeightGrain * 10)

CoordinateWeights ==
    { engine_default_weights,
      SitingWeights(5 * WeightGrain * 10, 5 * WeightGrain * 10, 5 * WeightGrain * 10),
      SitingWeights(4 * WeightGrain * 10, 3 * WeightGrain * 10, 3 * WeightGrain * 10 + 1),
      SitingWeights(4 * WeightGrain * 10, 3 * WeightGrain * 10, 3 * WeightGrain * 10 + 2),
      SitingWeights(5 * WeightGrain * 10, 5 * WeightGrain * 10, 0) }

CleanGenCalls ==
    { [op |-> "calculate_clean_gen_score", node_lat |-> l, energy_sources |-> q,
       normalization_factor |-> f, demand_mw |-> d] :
        l \in {4500, 4800}, q \in SourceLists, f \in GenFactors, d \in Demands }

TransmissionScoreCalls ==
    { [op |-> "calculate_transmission_score", node_lat |-> l, power_plants |-> q,
       normalization_factor |-> f] :
        l \in {4500, 4800}, q \in Catalogs, f \in TransFactors }

ReliabilityCalls ==
    { [op |-> "_calculate_reliability_score", latitude |-> l, power_plants |-> q] :
        l \in Locations, q \in Catalogs }

EstimateCalls ==
    { [op |-> "estimate_normalization_factor", all_nodes |-> n, energy_sources |-> q] :
        n \in NodeLists, q \in SourceLists }

EstimateTransmissionCalls ==
    { [op |-> "estimate_transmission_normalization_factor", all_nodes |-> n,
       power_plants |-> q] :
        n \in NodeLists, q \in Catalogs }

\* calculate_scores_from_coordinates: every location, catalog and demand under
\* the default weights, with and without the unused energy_sources argument;
\* and every weight vector at one location
CoordinateCalls ==
    { [op |-> "calculate_scores_from_coordinates", latitude |-> l,
       energy_sources |-> e, power_plants |-> q, weights |-> w, demand_profile |-> d] :
        l \in {4500, 3000, 4800}, e \in {<<>>, <<EnergySource(4460, 300, 20)>>},
        q \in Catalogs, w \in {engine_default_weights}, d \in DemandProfiles }
    \cup
    { [op |-> "calculate_scores_from_coordinates", latitude |-> 4500,
       energy_sources |-> <<>>, power_plants |-> q, weights |-> w,
       demand_profile |-> None] :
        q \in Catalogs, w \in CoordinateWeights }

\* Longest list of sites ranked
MaxSites == 3

GridNode(id, c, t, r) ==
    [id |-> id, clean_gen |-> c, transmission_headroom |-> t, reliability |-> r]

\* Sites ranked: the first two tie under weights 0.5, 0.5, 0; the last shares
\* the id of the second
SiteKinds ==
    { GridNode(1, 74500, 33300, 0), GridNode(2, 33300, 74500, 0),
      GridNode(3, 100000, 100000, 100000), GridNode(2, 0, 0, 33300) }

SiteLists == SeqsUpTo(SiteKinds, MaxSites)

\* Weights of the ranking calls: the defaults; 0.5, 0.5, 0; and 0.5, 0.5, 0.5
RankWeights ==
    { engine_default_weights,
      SitingWeights(5 * WeightGrain * 10, 5 * WeightGrain * 10, 0),
      SitingWeights(5 * WeightGrain * 10, 5 * WeightGrain * 10, 5 * WeightGrain * 10) }

RankCalls ==
    { [op |-> "rank_sites", nodes |-> n, weights |-> w] :
        n \in SiteLists, w \in RankWeights }

PercentileCalls ==
    { [op |-> "_calculate_percentile", node |-> n, all_nodes |-> q, weights |-> w] :
        n \in SiteKinds, q \in SiteLists, w \in RankWeights }

\* Limits tried: none, fewer than the sites, and the engine's own 5
Limits == {0, 1, 2, 5}

AlternativesCalls ==
    { [op |-> "_find_alternatives", reference_node |-> n, all_nodes |-> q,
       weights |-> w, limit |-> l] :
        n \in SiteKinds, q \in SiteLists, w \in RankWeights, l \in Limits }

\* The endpoint takes limit from 1 to 20; site 99 is no mock node
AlternativeSitesCalls ==
    { [op |-> "get_alternative_sites", grid_nodes |-> q, site_id |-> i,
       weights |-> w, limit |-> l] :
        q \in SiteLists, i \in {1, 2, 99}, w \in RankWeights, l \in Limits \ {0} }

SiteEvaluation(id, score) == [site_id |-> id, composite_score |-> score]

\* Evaluations compared: two of one site, and two sites of one score
EvaluationKinds ==
    { SiteEvaluation(1, 398), SiteEvaluation(2, 539), SiteEvaluation(3, 1000),
      SiteEvaluation(2, 100), SiteEvaluation(4, 539) }

CompareCalls ==
    { [op |-> "compare_scenarios", evaluations |-> q] :
        q \in SeqsUpTo(EvaluationKinds, MaxSites) }

\* An energy source as load_energy_sources returns it: coordinates is None
\* until the address is geocoded; clean_multiplier is get_clean_multiplier()
LoadedSource(coordinates, mw, multiplier) ==
    [coordinates |-> coordinates, ppa_capacity_mw |-> mw, clean_multiplier |-> multiplier]

\* Sources near mock nodes 3 and 9, near node 1, near node 7, and one that was
\* never geocoded
LoadedSourceKinds ==
    { LoadedSource(Some(4500), 300, 20), LoadedSource(Some(5000), 50, 19),
      LoadedSource(Some(3400), 600, 20), LoadedSource(None, 400, 20) }

LoadedSourceLists == SeqsUpTo(LoadedSourceKinds, MaxPlants)

\* Lists of nodes rescored: none, two runs of the mock nodes, and all of them
RescoredNodeLists ==
    { <<>>, SubSeq(generate_mock_grid_nodes, 1, 3), SubSeq(generate_mock_grid_nodes, 7, 9),
      generate_mock_grid_nodes }

RealCleanGenCalls ==
    { [op |-> "calculate_real_clean_gen_scores", nodes |-> n, energy_sources |-> q,
       demand_mw |-> d, import_ok |-> b] :
        n \in RescoredNodeLists, q \in LoadedSourceLists,
        d \in {None, Some(10), Some(1000)}, b \in BOOLEAN }

RealTransmissionCalls ==
    { [op |-> "calculate_real_transmission_scores", nodes |-> n, power_plants |-> q,
       import_ok |-> b] :
        n \in RescoredNodeLists, q \in Catalogs, b \in BOOLEAN }

\* main.py as imported: nothing loaded, nothing saved
main_module ==
    [energy_sources |-> <<>>, grid_nodes |-> <<>>, power_plants |-> <<>>,
     saved_scenarios |-> <<>>]

\* The data files: the plants of the eGRID file, the projects of the RWE file
DataFiles(plants, sources) == [plants |-> plants, sources |-> sources]

\* A plant as load_power_plants_from_json builds it
StoredPlant(code, lat, mw, fuel, category, gen) ==
    [oris_code |-> code, latitude |-> lat, nameplate_mw |-> mw, primary_fuel |-> fuel,
     primary_fuel_category |-> category, annual_net_gen_mwh |-> gen]

StoredPlantKinds ==
    { StoredPlant(3, 4500, 600, "SUN", "SOLAR", 1200000),
      StoredPlant(7, 3000, 30, "WND", "WIND", 90000),
      StoredPlant(8, 4650, 2000, "NG", "GAS", 9000000),
      StoredPlant(9, 4300, 1000, "NUC", "NUCLEAR", 8000000),
      StoredPlant(12, 4700, 50, "SUN", "SOLAR", 0) }

GeojsonCalls ==
    { [op |-> "power_plants_to_geojson", plants |-> q, include_metadata |-> b] :
        q \in SeqsUpTo(StoredPlantKinds, MaxPlants), b \in BOOLEAN }

Init ==
    /\ \/ call \in ProximityCalls
       \/ call \in TransmissionDecayCalls
       \/ call \in CompositeCalls
       \/ call \in CleanGenCalls
       \/ call \in TransmissionScoreCalls
       \/ call \in ReliabilityCalls
       \/ call \in EstimateCalls
       \/ call \in EstimateTransmissionCalls
       \/ call \in CoordinateCalls
       \/ call \in RankCalls
       \/ call \in PercentileCalls
       \/ call \in AlternativesCalls
       \/ call \in AlternativeSitesCalls
       \/ call \in CompareCalls
       \/ call \in RealCleanGenCalls
       \/ call \in RealTransmissionCalls
       \/ call \in GeojsonCalls
    /\ ret = Pending
    /\ trace = <<>>
    /\ main = main_module
    /\ cached_plants = None
    /\ disk = DataFiles(<<>>, <<>>)
    /\ issued = {}

----------------------------------------------------------------------------
(* Operations *)

ProximityDecay ==
    /\ call.op = "proximity_decay_factor"
    /\ ret = Pending
    /\ ret' = Ok([factor |-> proximity_decay_factor(call.distance_km),
                  script |-> proximity_decay_factor_script(call.distance_km)])
    /\ UNCHANGED <<call, trace, server>>

TransmissionDecay ==
    /\ call.op = "transmission_decay_factor"
    /\ ret = Pending
    /\ ret' = Ok(transmission_decay_factor(call.distance_km, call.plant_capacity_mw))
    /\ UNCHANGED <<call, trace, server>>

CompositeScore ==
    /\ call.op = "calculate_composite_score"
    /\ ret = Pending
    /\ LET out == calculate_composite_score(call.node, call.weights)
       IN ret' = out.ret /\ trace' = out.trace
    /\ UNCHANGED <<call, server>>

CleanGenScore ==
    /\ call.op = "calculate_clean_gen_score"
    /\ ret = Pending
    /\ ret' = Ok(calculate_clean_gen_score(call.node_lat, call.energy_sources,
                      call.normalization_factor, call.demand_mw))
    /\ UNCHANGED <<call, trace, server>>

TransmissionScore ==
    /\ call.op = "calculate_transmission_score"
    /\ ret = Pending
    /\ ret' = Ok(calculate_transmission_score(call.node_lat, call.power_plants,
                      call.normalization_factor))
    /\ UNCHANGED <<call, trace, server>>

ReliabilityScore ==
    /\ call.op = "_calculate_reliability_score"
    /\ ret = Pending
    /\ ret' = Ok(calculate_reliability_score(call.latitude, call.power_plants))
    /\ UNCHANGED <<call, trace, server>>

EstimateNormalization ==
    /\ call.op = "estimate_normalization_factor"
    /\ ret = Pending
    /\ ret' = estimate_normalization_factor_call(call.all_nodes, call.energy_sources)
    /\ UNCHANGED <<call, trace, server>>

EstimateTransmissionNormalization ==
    /\ call.op = "estimate_transmission_normalization_factor"
    /\ ret = Pending
    /\ ret' = estimate_transmission_normalization_factor_call(call.all_nodes,
                                                              call.power_plants)
    /\ UNCHANGED <<call, trace, server>>

ScoresFromCoordinates ==
    /\ call.op = "calculate_scores_from_coordinates"
    /\ ret = Pending
    /\ LET out == calculate_scores_from_coordinates(call.latitude, call.energy_sources,
                      call.power_plants, call.weights, call.demand_profile)
       IN ret' = out.ret /\ trace' = out.trace
    /\ UNCHANGED <<call, server>>

RankSites ==
    /\ call.op = "rank_sites"
    /\ ret = Pending
    /\ ret' = rank_sites(call.nodes, call.weights)
    /\ UNCHANGED <<call, trace, server>>

Percentile ==
    /\ call.op = "_calculate_percentile"
    /\ ret = Pending
    /\ ret' = calculate_percentile(call.node, call.all_nodes, call.weights)
    /\ UNCHANGED <<call, trace, server>>

FindAlternatives ==
    /\ call.op = "_find_alternatives"
    /\ ret = Pending
    /\ ret' = find_alternatives(call.reference_node, call.all_nodes, call.weights,
                                call.limit)
    /\ UNCHANGED <<call, trace, server>>

GetAlternativeSites ==
    /\ call.op = "get_alternative_sites"
    /\ ret = Pending
    /\ ret' = get_alternative_sites(call.grid_nodes, call.site_id, call.weights,
                                    call.limit)
    /\ UNCHANGED <<call, trace, server>>

CompareScenarios ==
    /\ call.op = "compare_scenarios"
    /\ ret = Pending
    /\ ret' = compare_scenarios(call.evaluations)
    /\ UNCHANGED <<call, trace, server>>

\* The callee holds the caller's list: what it does to the list shows in call
RealCleanGenScores ==
    /\ call.op = "calculate_real_clean_gen_scores"
    /\ ret = Pending
    /\ LET out == calculate_real_clean_gen_scores(call.nodes, call.energy_sources,
                      call.demand_mw, call.import_ok)
       IN ret' = Ok(out.ret) /\ call' = [call EXCEPT !.nodes = out.nodes]
    /\ UNCHANGED <<trace, server>>

RealTransmissionScores ==
    /\ call.op = "calculate_real_transmission_scores"
    /\ ret = Pending
    /\ LET out == calculate_real_transmission_scores(call.nodes, call.power_plants,
                      call.import_ok)
       IN ret' = Ok(out.ret) /\ call' = [call EXCEPT !.nodes = out.nodes]
    /\ UNCHANGED <<trace, server>>

PowerPlantsToGeojson ==
    /\ call.op = "power_plants_to_geojson"
    /\ ret = Pending
    /\ ret' = Ok(power_plants_to_geojson(call.plants, call.include_metadata))
    /\ UNCHANGED <<call, trace, server>>

Next ==
    \/ ProximityDecay
    \/ TransmissionDecay
    \/ CompositeScore
    \/ CleanGenScore
    \/ TransmissionScore
    \/ ReliabilityScore
    \/ EstimateNormalization
    \/ EstimateTransmissionNormalization
    \/ ScoresFromCoordinates
    \/ RankSites
    \/ Percentile
    \/ FindAlternatives
    \/ GetAlternativeSites
    \/ CompareScenarios
    \/ RealCleanGenScores
    \/ RealTransmissionScores
    \/ PowerPlantsToGeojson

Spec == Init /\ [][Next]_vars

----------------------------------------------------------------------------
(* The server: data loading and evaluation *)

\* The eGRID file: missing, without a plant, or one of two catalogs
PlantFiles ==
    { None, Some(<<>>),
      Some(<<PowerPlant(4500, 600, "SUN", "SOLAR"), PowerPlant(4650, 2000, "NG", "GAS")>>),
      Some(<<PowerPlant(3000, 30, "WND", "WIND")>>) }

\* The RWE file: missing, or two geocoded projects and one that is not
SourceFiles ==
    { None,
      Some(<<LoadedSource(Some(4500), 300, 20), LoadedSource(None, 400, 20),
             LoadedSource(Some(3400), 600, 20)>>) }

DiskStates == { DataFiles(p, s) : p \in PlantFiles, s \in SourceFiles }

\* Weights of the requests: the defaults, and 0.5, 0.5, 0.5
RequestWeights ==
    { engine_default_weights,
      SitingWeights(5 * WeightGrain * 10, 5 * WeightGrain * 10, 5 * WeightGrain * 10) }

\* SitingRequest: mock nodes 1 and 9, and an id that no node has
SitingRequests ==
    { [site_id |-> i, weights |-> w, demand_profile |-> None] :
        i \in {1, 9, 99}, w \in RequestWeights }

\* LocationEvaluationRequest: beside the plants of the first catalog and beside
\* the plant of the second, with and without a demand of 10 MW
LocationEvaluationRequests ==
    { [latitude |-> l, weights |-> w, demand_profile |-> d] :
        l \in {4500, 3000}, w \in RequestWeights,
        d \in {None, Some([size_mw |-> 10])} }

ServerInit ==
    /\ call = [op |-> "import main"]
    /\ ret = Pending
    /\ trace = <<>>
    /\ main = main_module
    /\ cached_plants = None
    /\ disk \in DiskStates
    /\ issued = {}

\* The data files are replaced while the server runs
EditDataFiles ==
    /\ \E files \in DiskStates \ {disk} : disk' = files
    /\ UNCHANGED <<call, ret, trace, main, cached_plants, issued>>

\* The server starts once, before it answers any request
Startup ==
    /\ call.op = "import main"
    /\ LET out == startup_event(main, cached_plants, disk)
       IN main' = out.main /\ cached_plants' = out.cached_plants
    /\ call' = [op |-> "startup_event"]
    /\ ret' = Ok(<<>>)
    /\ UNCHANGED <<trace, disk, issued>>

ReloadEnergySources ==
    /\ call.op # "import main"
    /\ LET out == reload_energy_sources(main, cached_plants, disk)
       IN main' = out.main /\ cached_plants' = out.cached_plants /\ ret' = out.ret
    /\ call' = [op |-> "reload_energy_sources"]
    /\ UNCHANGED <<trace, disk, issued>>

EvaluateSite ==
    /\ call.op # "import main"
    /\ \E request \in SitingRequests :
           /\ call' = [op |-> "evaluate_site", request |-> request]
           /\ ret' = main_evaluate_site(main, request)
    /\ UNCHANGED <<trace, server>>

EvaluateLocation ==
    /\ call.op # "import main"
    /\ \E request \in LocationEvaluationRequests :
           /\ call' = [op |-> "evaluate_location", request |-> request]
           /\ ret' = evaluate_location(main, request)
    /\ UNCHANGED <<trace, server>>

GetSiteRankings ==
    /\ call.op # "import main"
    /\ \E w \in RequestWeights, limit \in {None, Some(3)} :
           /\ call' = [op |-> "get_site_rankings", weights |-> w, limit |-> limit]
           /\ ret' = get_site_rankings(main, w, limit)
    /\ UNCHANGED <<trace, server>>

ServerNext ==
    \/ EditDataFiles
    \/ Startup
    \/ ReloadEnergySources
    \/ EvaluateSite
    \/ EvaluateLocation
    \/ GetSiteRankings

ServerSpec == ServerInit /\ [][ServerNext]_vars

----------------------------------------------------------------------------
(* The server: the saved scenarios *)

\* Most scenarios held at a time
MaxSaved == 2

\* Evaluations posted to save_scenario: two sites
PostedEvaluations == { SiteEvaluation(1, 398), SiteEvaluation(2, 539) }

\* Lists of ids posted to compare_scenarios
ScenarioIdLists == { <<>>, <<0>>, <<1>>, <<0, 1>>, <<1, 0>>, <<0, 0>>, <<2>>, <<-1>> }

ScenarioInit ==
    /\ call = [op |-> "import main"]
    /\ ret = Pending
    /\ trace = <<>>
    /\ main = main_module
    /\ cached_plants = None
    /\ disk = DataFiles(None, None)
    /\ issued = {}

\* issued records which evaluation each returned scenario_id was returned for
SaveScenario ==
    /\ Len(main.saved_scenarios) < MaxSaved
    /\ \E evaluation \in PostedEvaluations :
           LET out == save_scenario(main.saved_scenarios, evaluation)
           IN /\ main' = [main EXCEPT !.saved_scenarios = out.saved_scenarios]
              /\ call' = [op |-> "save_scenario", evaluation |-> evaluation]
              /\ ret' = out.ret
              /\ issued' = issued \cup {<<out.ret.value.scenario_id, evaluation>>}
    /\ trace' = <<>>
    /\ UNCHANGED <<cached_plants, disk>>

ClearSavedScenarios ==
    /\ LET out == clear_saved_scenarios(main.saved_scenarios)
       IN /\ main' = [main EXCEPT !.saved_scenarios = out.saved_scenarios]
          /\ ret' = out.ret
    /\ call' = [op |-> "clear_saved_scenarios"]
    /\ trace' = <<>>
    /\ UNCHANGED <<cached_plants, disk, issued>>

\* trace holds the evaluations the ids were resolved to
CompareSavedScenarios ==
    /\ \E scenario_ids \in ScenarioIdLists :
           LET out == main_compare_scenarios(main.saved_scenarios, scenario_ids)
           IN /\ call' = [op |-> "compare_scenarios", scenario_ids |-> scenario_ids]
              /\ ret' = out.ret
              /\ trace' = out.evaluations
    /\ UNCHANGED server

ScenarioNext ==
    \/ SaveScenario
    \/ ClearSavedScenarios
    \/ CompareSavedScenarios

ScenarioSpec == ScenarioInit /\ [][ScenarioNext]_vars

----------------------------------------------------------------------------
(* Claims *)

Returned(op) == call.op = op /\ ret.status = "ok"

\* The sum of the three weights, in units of 1e-9
WeightTotal(w) == w.weight_clean + w.weight_transmission + w.weight_reliability

HalfWeights ==
    SitingWeights(5 * WeightGrain * 10, 5 * WeightGrain * 10, 5 * WeightGrain * 10)

\* C1: calculate_composite_score and calculate_scores_from_coordinates raise the
\* validation error with nothing but validate_sum run whenever the weights miss
\* 1.0 by more than 1e-9 (so for 0.5, 0.5, 0.5); they return a breakdown when
\* the weights sum to 1.0 (so for 0.4, 0.3, 0.3); and a breakdown that is
\* returned carries the weights of the call unchanged.
C1_WeightsValidated ==
    (call.op \in {"calculate_composite_score", "calculate_scores_from_coordinates"}
       /\ ret # Pending) =>
        /\ Abs(WeightTotal(call.weights) - NanoPerUnit) > 1 =>
               ret = ValueError /\ trace = <<"validate_sum">>
        /\ WeightTotal(call.weights) = NanoPerUnit =>
               /\ ret.status = "ok"
               /\ Head(trace) = "validate_sum"
               /\ Len(trace) > 1
        /\ ret.status = "ok" => ret.value.weights_used = call.weights
        /\ ret.status # "ok" => ret = ValueError /\ trace = <<"validate_sum">>
        /\ call.weights = HalfWeights => ret = ValueError
        /\ call.weights = engine_default_weights => ret.status = "ok"

\* C1 witness: calculate_scores_from_coordinates called with weights 0.5, 0.5,
\* 0.5 over a non-empty catalog has raised, with validate_sum its only step
C1_Witness ==
    /\ call.op = "calculate_scores_from_coordinates"
    /\ call.weights = HalfWeights
    /\ call.power_plants # <<>>
    /\ ret = ValueError
    /\ trace = <<"validate_sum">>

\* The exact sum wc*c + wt*t + wr*r of a call, split at WeightGrain: the whole
\* part counts 1e-5 of a score point, the rest is below one such unit
C2_Whole ==
    call.node.clean_gen * (call.weights.weight_clean \div WeightGrain)
      + call.node.transmission_headroom * (call.weights.weight_transmission \div WeightGrain)
      + call.node.reliability * (call.weights.weight_reliability \div WeightGrain)

C2_Rest ==
    call.node.clean_gen * (call.weights.weight_clean % WeightGrain)
      + call.node.transmission_headroom * (call.weights.weight_transmission % WeightGrain)
      + call.node.reliability * (call.weights.weight_reliability % WeightGrain)

\* C2: the composite_score returned by calculate_composite_score is the tenth
\* nearest to the exact sum wc*c + wt*t + wr*r (the even tenth when the sum is
\* midway between two), whatever the rounded contributions are.
C2_CompositeIsRoundedSum ==
    Returned("calculate_composite_score") =>
        LET whole == C2_Whole + (C2_Rest \div WeightGrain)
            rest == C2_Rest % WeightGrain
            low == ret.value.composite_score * 10000 - 5000
            high == ret.value.composite_score * 10000 + 5000
        IN /\ low <= whole
           /\ whole < high \/ (whole = high /\ rest = 0)
           /\ ((whole = low \/ whole = high) /\ rest = 0) =>
                  ret.value.composite_score % 2 = 0

\* C2 witness: a composite that is not the sum of the three rounded
\* contributions of its breakdown
C2_Witness ==
    /\ Returned("calculate_composite_score")
    /\ ret.value.composite_score #
           ret.value.clean_gen_contribution + ret.value.transmission_contribution
             + ret.value.reliability_contribution

\* C3: every breakdown returned by calculate_scores_from_coordinates has its
\* three scores and its composite in [0, 100], with or without a demand profile.
C3_ScoresInRange ==
    Returned("calculate_scores_from_coordinates") =>
        /\ 0 <= ret.value.clean_gen_score /\ ret.value.clean_gen_score <= 100000
        /\ 0 <= ret.value.transmission_score /\ ret.value.transmission_score <= 100000
        /\ 0 <= ret.value.reliability_score /\ ret.value.reliability_score <= 100000
        /\ 0 <= ret.value.composite_score /\ ret.value.composite_score <= 1000

\* C4: without a demand, calculate_clean_gen_score, calculate_transmission_score
\* and _calculate_reliability_score each return a value in [0, 100].
C4_CalculatorsInRange ==
    /\ (Returned("calculate_clean_gen_score") /\ call.demand_mw = None) =>
           0 <= ret.value /\ ret.value <= 1000
    /\ Returned("calculate_transmission_score") =>
           0 <= ret.value /\ ret.value <= 1000
    /\ Returned("_calculate_reliability_score") =>
           0 <= ret.value /\ ret.value <= 100000

\* C4 witness: a raw transmission score above the normalization factor, scored
\* at exactly 100
C4_Witness ==
    /\ Returned("calculate_transmission_score")
    /\ call.power_plants # <<>>
    /\ raw_transmission_score(call.node_lat, call.power_plants) >
           call.normalization_factor
    /\ ret.value = 1000

\* T is the whole number nearest to n * m / d, the even one of the two when
\* n * m / d lies midway
IsNearest(T, n, m, d) ==
    LET qr == MulDiv(n, m, d)
    IN /\ T \in {qr[1], qr[1] + 1}
       /\ 2 * qr[2] < d => T = qr[1]
       /\ 2 * qr[2] > d => T = qr[1] + 1
       /\ 2 * qr[2] = d => T % 2 = 0

\* The sources of a clean-generation call as a set of positions, and the raw
\* score capacity * multiplier * proximity summed over them
RECURSIVE C11_RawSum(_, _)
C11_RawSum(lat, q) ==
    IF q = <<>> THEN 0
    ELSE q[Len(q)].capacity_mw * q[Len(q)].clean_multiplier
           * proximity_decay_factor(Abs(q[Len(q)].latitude - lat))
         + C11_RawSum(lat, SubSeq(q, 1, Len(q) - 1))

\* C11: without a demand, calculate_clean_gen_score returns
\* min(100, 100 * raw / normalization_factor) rounded to one decimal, raw the
\* sum of capacity * multiplier * proximity over all sources; one 300 MW source
\* of multiplier 1.0 at 40 km with factor 300 scores 100.0.
C11_CleanGenFormula ==
    (Returned("calculate_clean_gen_score") /\ call.demand_mw = None) =>
        LET raw == C11_RawSum(call.node_lat, call.energy_sources)
            F == call.normalization_factor
        IN /\ raw >= F => ret.value = 1000
           /\ raw < F => IsNearest(ret.value, raw, 1000, F)
           /\ (call.node_lat = 4500
                 /\ call.energy_sources = <<EnergySource(4460, 300, MultScale)>>
                 /\ F = 300 * GenUnit) => ret.value = 1000

\* C11 witness: two sources, one of them of multiplier 0.95, scored strictly
\* between 0 and 100
C11_Witness ==
    /\ Returned("calculate_clean_gen_score")
    /\ call.demand_mw = None
    /\ Len(call.energy_sources) = 2
    /\ \E i \in 1..2 : call.energy_sources[i].clean_multiplier = 19
    /\ 0 < ret.value /\ ret.value < 1000

\* The capacity * multiplier of the sources nearer than 300 km, in 1/MultScale MW
RECURSIVE C12_Nearby(_, _)
C12_Nearby(lat, q) ==
    IF q = <<>> THEN 0
    ELSE (IF Abs(q[Len(q)].latitude - lat) < 300
          THEN q[Len(q)].capacity_mw * q[Len(q)].clean_multiplier ELSE 0)
         + C12_Nearby(lat, SubSeq(q, 1, Len(q) - 1))

\* The band of the ratio a / (d * MultScale), in hundredths, lower bounds inclusive
C12_Band(a, d) ==
    LET D == d * MultScale IN
    CASE a >= 3 * D -> 120
      [] a < 3 * D /\ a >= 2 * D -> 110
      [] a < 2 * D /\ 10 * a >= 15 * D -> 100
      [] 10 * a < 15 * D /\ a >= D -> 95
      [] a < D /\ 10 * a >= 7 * D -> 85
      [] 10 * a < 7 * D /\ 10 * a >= 5 * D -> 70
      [] 10 * a < 5 * D -> 50

C13_EmptyCatalog ==
    /\ (call.op = "calculate_clean_gen_score" /\ call.energy_sources = <<>>
          /\ ret # Pending) => ret = Ok(0)
    /\ (call.op = "calculate_transmission_score" /\ call.power_plants = <<>>
          /\ ret # Pending) => ret = Ok(500)
    /\ (call.op = "calculate_scores_from_coordinates" /\ call.power_plants = <<>>
          /\ validate_sum(call.weights) /\ ret # Pending) =>
            /\ ret.status = "ok"
            /\ ret.value.clean_gen_score = 0
            /\ ret.value.transmission_score = 50000

\* The positions of the plants of the call within 200 km of its location
C14_Nearby ==
    { i \in 1..Len(call.power_plants) :
        Abs(call.power_plants[i].latitude - call.latitude) <= 200 }

\* The nameplate capacity of the plants of q at the positions I, in MW
RECURSIVE C14_TotalMW(_, _)
C14_TotalMW(q, I) ==
    IF I = {} THEN 0
    ELSE LET i == CHOOSE j \in I : TRUE
         IN q[i].nameplate_mw + C14_TotalMW(q, I \ {i})

\* C14: _calculate_reliability_score returns 50.0 for an empty catalog, 30.0
\* when no plant lies within 200 km, and otherwise
\* 0.4 * min(100, count/20*100) + 0.3 * min(100, categories/5*100)
\*   + 0.3 * min(100, totalMW/10000*100) over the plants within 200 km.
C14_ReliabilityFormula ==
    Returned("_calculate_reliability_score") =>
        LET count == Cardinality(C14_Nearby)
            categories == Cardinality({ call.power_plants[i].primary_fuel_category :
                                          i \in C14_Nearby })
            totalMW == C14_TotalMW(call.power_plants, C14_Nearby)
        IN /\ call.power_plants = <<>> => ret.value = 50000
           /\ (call.power_plants # <<>> /\ count = 0) => ret.value = 30000
           /\ count > 0 =>
                  10 * ret.value = 4 * Min2(100000, count * 5000)
                                     + 3 * Min2(100000, categories * 20000)
                                     + 3 * Min2(100000, totalMW * 10)

\* C14 witness: one plant at exactly 200 km counted, another beyond 200 km left
\* out
C14_Witness ==
    /\ Returned("_calculate_reliability_score")
    /\ Cardinality(C14_Nearby) = 1
    /\ Len(call.power_plants) = 2
    /\ \E i \in C14_Nearby :
           /\ Abs(call.power_plants[i].latitude - call.latitude) = 200
           /\ ret.value = 2000 + 6000 + 3 * call.power_plants[i].nameplate_mw

\* The nodes of a list of (node, score) pairs
NodesOf(pairs) == [i \in 1..Len(pairs) |-> pairs[i].node]

\* C15: for valid weights rank_sites returns every input site once, paired with
\* its composite score, by non-increasing score, and the sites of one score in
\* the order they have in the input.
C15_RankedStable ==
    (call.op = "rank_sites" /\ ret # Pending /\ validate_sum(call.weights)) =>
        /\ ret.status = "ok"
        /\ Len(ret.value) = Len(call.nodes)
        /\ \A i \in 1..Len(ret.value) :
               ret.value[i].score =
                   composite_score_of(ret.value[i].node, call.weights)
        /\ \A i, j \in 1..Len(ret.value) :
               i < j => ret.value[i].score >= ret.value[j].score
        /\ \A k \in 1..Len(ret.value) :
               LET Ranked(e) == e.score = ret.value[k].score
                   Given(n) == composite_score_of(n, call.weights) = ret.value[k].score
               IN NodesOf(SelectSeq(ret.value, Ranked)) = SelectSeq(call.nodes, Given)

\* C15 witness: three sites ranked, the first of the input ranked last and two
\* different sites tied ahead of it
C15_Witness ==
    /\ Returned("rank_sites")
    /\ Len(ret.value) = 3
    /\ ret.value[1].score = ret.value[2].score
    /\ ret.value[1].node # ret.value[2].node
    /\ ret.value[3].node = call.nodes[1]
    /\ ret.value[3].score < ret.value[2].score

\* The positions of all_nodes whose composite score is below that of the node
C16_Beaten ==
    { i \in 1..Len(call.all_nodes) :
        composite_score_of(call.all_nodes[i], call.weights)
          < composite_score_of(call.node, call.weights) }

\* The node is one of all_nodes, whose scores are all distinct
C16_BestOfDistinct ==
    /\ \E i \in 1..Len(call.all_nodes) : call.all_nodes[i] = call.node
    /\ \A i, j \in 1..Len(call.all_nodes) :
           i # j => composite_score_of(call.all_nodes[i], call.weights)
                      # composite_score_of(call.all_nodes[j], call.weights)
    /\ Cardinality(C16_Beaten) = Len(call.all_nodes) - 1

\* C16: for n >= 1 sites and valid weights _calculate_percentile returns
\* round(100 * k / n, 1), k the number of the n sites with a composite score
\* strictly below the node's; for the best of n sites of distinct scores that is
\* 100 * (n - 1) / n to one decimal; the result lies in [0, 100].
C16_PercentileFormula ==
    (call.op = "_calculate_percentile" /\ ret # Pending
       /\ validate_sum(call.weights) /\ call.all_nodes # <<>>) =>
        /\ ret.status = "ok"
        /\ IsNearest(ret.value, Cardinality(C16_Beaten), 1000, Len(call.all_nodes))
        /\ 0 <= ret.value /\ ret.value <= 1000
        /\ C16_BestOfDistinct =>
               IsNearest(ret.value, Len(call.all_nodes) - 1, 1000, Len(call.all_nodes))

\* C16 witness: the best of three sites of distinct scores, at 66.7
C16_Witness ==
    /\ Returned("_calculate_percentile")
    /\ Len(call.all_nodes) = 3
    /\ C16_BestOfDistinct
    /\ ret.value = 667

\* The sites, the reference id and the alternatives returned of a call of
\* _find_alternatives or of the endpoint
C17_Sites ==
    IF call.op = "_find_alternatives" THEN call.all_nodes ELSE call.grid_nodes

C17_ReferenceId ==
    IF call.op = "_find_alternatives" THEN call.reference_node.id ELSE call.site_id

C17_Returned ==
    IF call.op = "_find_alternatives" THEN ret.value ELSE ret.value.alternatives

\* rank_sites of the sites of the call without the entries of the reference id
C17_Remaining ==
    LET NotReference(pair) == pair.node.id # C17_ReferenceId
    IN SelectSeq(rank_sites(C17_Sites, call.weights).value, NotReference)

\* C17: the alternatives are the first min(limit, m) of the m entries that
\* rank_sites leaves once every entry of the reference id is removed, in rank
\* order; no alternative has the reference id.
C17_TopAlternatives ==
    (call.op \in {"_find_alternatives", "get_alternative_sites"}
       /\ ret # Pending /\ ret.status = "ok") =>
        /\ Len(C17_Returned) = Min2(call.limit, Len(C17_Remaining))
        /\ \A i \in 1..Len(C17_Returned) :
               /\ C17_Returned[i].id = C17_Remaining[i].node.id
               /\ C17_Returned[i].composite_score = C17_Remaining[i].score
               /\ C17_Returned[i].clean_gen = C17_Remaining[i].node.clean_gen
               /\ C17_Returned[i].id # C17_ReferenceId

\* C17 witness: the reference ranked first of three sites, limit 2, and the
\* two sites ranked after it returned
C17_Witness ==
    /\ Returned("_find_alternatives")
    /\ call.limit = 2
    /\ Len(call.all_nodes) = 3
    /\ rank_sites(call.all_nodes, call.weights).value[1].node = call.reference_node
    /\ Len(ret.value) = 2

\* The composite scores of the evaluations of a comparison
C18_Scores ==
    { call.evaluations[i].composite_score : i \in 1..Len(call.evaluations) }

\* C18: for a non-empty list compare_scenarios returns the id of an evaluation
\* of the largest composite score, the pair (smallest, largest) of the scores,
\* and for each site id the score of its evaluation (the last one when the
\* site is evaluated more than once) minus the largest score; for an empty
\* list it raises and returns no comparison.
C18_Comparison ==
    (call.op = "compare_scenarios" /\ ret # Pending) =>
        /\ call.evaluations = <<>> => ret = ValueError
        /\ call.evaluations # <<>> =>
             /\ ret.status = "ok"
             /\ \E i \in 1..Len(call.evaluations) :
                    /\ call.evaluations[i].site_id = ret.value.best_site_id
                    /\ \A s \in C18_Scores : s <= call.evaluations[i].composite_score
             /\ ret.value.score_range[1] \in C18_Scores
             /\ ret.value.score_range[2] \in C18_Scores
             /\ \A s \in C18_Scores :
                    ret.value.score_range[1] <= s /\ s <= ret.value.score_range[2]
             /\ DOMAIN ret.value.score_deltas =
                    { call.evaluations[i].site_id : i \in 1..Len(call.evaluations) }
             /\ \A i \in 1..Len(call.evaluations) :
                    (\A j \in (i + 1)..Len(call.evaluations) :
                         call.evaluations[j].site_id # call.evaluations[i].site_id) =>
                        ret.value.score_deltas[call.evaluations[i].site_id] =
                            call.evaluations[i].composite_score
                              - ret.value.score_range[2]

\* C18 witness: three evaluations of three sites, the best of them last, the
\* first 60.2 below it
C18_Witness ==
    /\ Returned("compare_scenarios")
    /\ Len(call.evaluations) = 3
    /\ Cardinality(DOMAIN ret.value.score_deltas) = 3
    /\ ret.value.best_site_id = call.evaluations[3].site_id
    /\ ret.value.score_deltas[call.evaluations[1].site_id] = -602
    /\ ret.value.score_range = <<398, 1000>>

\* The sources of a catalog with every capacity doubled
C19_Doubled(q) == [i \in 1..Len(q) |-> [q[i] EXCEPT !.capacity_mw = 2 * @]]

\* C19: for every location, catalog and factor F > 0, calculate_clean_gen_score
\* (no demand given) returns the score it returns for the catalog with every
\* capacity doubled and the factor 2F.
C19_CleanGenScaleInvariant ==
    (Returned("calculate_clean_gen_score") /\ call.demand_mw = None) =>
        ret.value = calculate_clean_gen_score(call.node_lat,
                        C19_Doubled(call.energy_sources),
                        2 * call.normalization_factor, None)

\* C19 witness: a catalog of two sources scored strictly between 0 and 100,
\* its doubled raw score above the factor F and below 2F
C19_Witness ==
    /\ Returned("calculate_clean_gen_score")
    /\ call.demand_mw = None
    /\ Len(call.energy_sources) = 2
    /\ 0 < ret.value /\ ret.value < 1000
    /\ raw_clean_score(call.node_lat, C19_Doubled(call.energy_sources))
          > call.normalization_factor

\* The plants of a catalog with every nameplate capacity doubled
C20_Doubled(q) == [i \in 1..Len(q) |-> [q[i] EXCEPT !.nameplate_mw = 2 * @]]

\* The capacity class that decides the decay of a plant: under 100 MW, 100 to
\* 500 MW, 500 to 1000 MW, 1000 MW and more
C20_Class(mw) ==
    IF mw >= 1000 THEN 4 ELSE IF mw >= 500 THEN 3 ELSE IF mw >= 100 THEN 2 ELSE 1

C20_ClassesKept ==
    \A i \in 1..Len(call.power_plants) :
        C20_Class(2 * call.power_plants[i].nameplate_mw)
          = C20_Class(call.power_plants[i].nameplate_mw)

\* C20 as stated: for every location, catalog and factor F > 0,
\* calculate_transmission_score returns the score it returns for the catalog
\* with every nameplate capacity doubled and the factor 2F.
C20_TransmissionScaleInvariant ==
    Returned("calculate_transmission_score") =>
        ret.value = calculate_transmission_score(call.node_lat,
                        C20_Doubled(call.power_plants), 2 * call.normalization_factor)

\* C20: the score is the same for the doubled catalog and 2F whenever doubling
\* leaves every plant in its capacity class.
C20_ScaleInvariantWithinClass ==
    (Returned("calculate_transmission_score") /\ C20_ClassesKept) =>
        ret.value = calculate_transmission_score(call.node_lat,
                        C20_Doubled(call.power_plants), 2 * call.normalization_factor)

\* C20 witness: a catalog whose plants keep their class when doubled, scored
\* strictly between 0 and 100
C20_Witness ==
    /\ Returned("calculate_transmission_score")
    /\ call.power_plants # <<>>
    /\ C20_ClassesKept
    /\ 0 < ret.value /\ ret.value < 1000

\* The point (d, f) lies on the straight line from (d0, f0) to (d1, f1)
OnLine(d, f, d0, f0, d1, f1) == (f - f0) * (d1 - d0) = (f1 - f0) * (d - d0)

\* C5: proximity_decay_factor(d) is 1.0 for d < 50, falls linearly from 1.0 to
\* 0.7 over [50, 100), from 0.7 to 0.4 over [100, 200), from 0.4 to 0.2 over
\* [200, 300), and is 0.0 for every d >= 300; the copy in calculate_scores.py
\* returns the same value.
C5_ProximityBands ==
    Returned("proximity_decay_factor") =>
        LET d == call.distance_km
            f == ret.value.factor
        IN /\ d < 50 => f = ProxMilli(1000)
           /\ (50 <= d /\ d < 100) => OnLine(d, f, 50, ProxMilli(1000), 100, ProxMilli(700))
           /\ (100 <= d /\ d < 200) => OnLine(d, f, 100, ProxMilli(700), 200, ProxMilli(400))
           /\ (200 <= d /\ d < 300) => OnLine(d, f, 200, ProxMilli(400), 300, ProxMilli(200))
           /\ d >= 300 => f = 0
           /\ ret.value.script = f

\* C5 witness: the factor returned at 250 km, inside the last band, is 0.3
C5_Witness ==
    /\ Returned("proximity_decay_factor")
    /\ call.distance_km = 250
    /\ ret.value.factor = ProxMilli(300)

\* C6: for every distance d >= 0 the factor lies in [0, 1], and no larger
\* distance has a larger factor (across the breakpoints 50, 100, 200, 300 too).
C6_ProximityBoundedMonotone ==
    Returned("proximity_decay_factor") =>
        /\ 0 <= ret.value.factor
        /\ ret.value.factor <= ProxScale
        /\ \A d2 \in call.distance_km..MaxDistance :
               proximity_decay_factor(d2) <= ret.value.factor

\* C6 witness: a call at the last kilometre before a breakpoint, the factor
\* still above the value the next band starts from
C6_Witness ==
    /\ Returned("proximity_decay_factor")
    /\ call.distance_km = DISTANCE_FAIR - 1
    /\ ret.value.factor > ProxMilli(200)
    /\ proximity_decay_factor(DISTANCE_FAIR) = 0

\* The class bands as the claim C7 states them: the factor at 150 km and at
\* 300 km of each capacity class
C7_At150(cap) == IF cap < 100 THEN DecayMilli(300)
                 ELSE IF cap < 500 THEN DecayMilli(600) ELSE DecayMilli(800)
C7_At300(cap) == IF cap < 100 THEN 0
                 ELSE IF cap < 500 THEN DecayMilli(200) ELSE DecayMilli(500)

\* C7: transmission_decay_factor is 1.0 below 50 km in every class; over
\* [50, 150) it falls linearly from 1.0 to 0.3 (under 100 MW), 0.6 (100-500 MW)
\* or 0.8 (500 MW and more); over [150, 300) it continues linearly to 0.0, 0.2
\* and 0.5; a 600 MW plant at 80 km has factor 0.94.
C7_ClassBands ==
    Returned("transmission_decay_factor") =>
        LET d == call.distance_km
            cap == call.plant_capacity_mw
            f == ret.value
        IN /\ d < 50 => f = DecayMilli(1000)
           /\ (50 <= d /\ d < 150) =>
                  OnLine(d, f, 50, DecayMilli(1000), 150, C7_At150(cap))
           /\ (150 <= d /\ d < 300) =>
                  OnLine(d, f, 150, C7_At150(cap), 300, C7_At300(cap))
           /\ (d = 80 /\ cap = 600) => f = DecayMilli(940)

\* The maximum range of a capacity class as the claim C8 states it
C8_ClassRange(cap) == IF cap >= 500 THEN 300 ELSE IF cap >= 100 THEN 150 ELSE 50

C9_RawScores ==
    IF call.op = "estimate_normalization_factor"
    THEN raw_clean_scores(call.all_nodes, call.energy_sources)
    ELSE raw_transmission_scores(call.all_nodes, call.power_plants)

C9_Floor ==
    IF call.op = "estimate_normalization_factor"
    THEN GEN_FLOOR_MW * GenUnit ELSE TRANS_FLOOR_MW * TransUnit

C9_Catalog ==
    IF call.op = "estimate_normalization_factor"
    THEN call.energy_sources ELSE call.power_plants

EstimatorCall ==
    /\ call.op \in {"estimate_normalization_factor",
                     "estimate_transmission_normalization_factor"}
    /\ ret # Pending
    /\ call.all_nodes # <<>>
    /\ C9_Catalog # <<>>

\* v is the element at 0-based index k of the ascending arrangement of q: at
\* least k + 1 elements are not above v and at least Len(q) - k are not below
IsOrderStatistic(v, q, k) ==
    /\ \E i \in 1..Len(q) : q[i] = v
    /\ Cardinality({ i \in 1..Len(q) : q[i] <= v }) >= k + 1
    /\ Cardinality({ i \in 1..Len(q) : q[i] >= v }) >= Len(q) - k

\* C9: for n >= 1 candidates and a non-empty catalog both estimators return
\* (the index floor(0.9 n) is inside the list of n raw scores), and when the
\* raw score at that index of the ascending order is at least the floor of the
\* dimension, that raw score is the factor returned.
C9_PercentileReturned ==
    EstimatorCall =>
        LET n == Len(call.all_nodes)
            k == (9 * n) \div 10
        IN /\ ret.status = "ok"
           /\ Len(C9_RawScores) = n
           /\ 0 <= k /\ k < n
           /\ \A v \in { C9_RawScores[i] : i \in 1..n } :
                  (IsOrderStatistic(v, C9_RawScores, k) /\ v >= C9_Floor) =>
                      ret.value = v

\* C9 witness: eleven or more candidates, the factor returned at least the
\* floor, and neither the largest nor the smallest raw score
C9_Witness ==
    /\ EstimatorCall
    /\ ret.status = "ok"
    /\ Len(call.all_nodes) >= 11
    /\ ret.value >= C9_Floor
    /\ \E i \in 1..Len(C9_RawScores) : C9_RawScores[i] > ret.value
    /\ \E i \in 1..Len(C9_RawScores) : C9_RawScores[i] < ret.value

\* The raw score at index floor(0.9 n) and the largest raw score of the call
C10_P90 ==
    CHOOSE v \in { C9_RawScores[i] : i \in 1..Len(C9_RawScores) } :
        IsOrderStatistic(v, C9_RawScores, (9 * Len(C9_RawScores)) \div 10)

C10_Max ==
    CHOOSE v \in { C9_RawScores[i] : i \in 1..Len(C9_RawScores) } :
        \A i \in 1..Len(C9_RawScores) : C9_RawScores[i] <= v

C10_Default ==
    IF call.op = "estimate_normalization_factor"
    THEN GEN_DEFAULT_MW * GenUnit ELSE TRANS_DEFAULT_MW * TransUnit

\* C10 as stated: when the 90th-percentile raw score is below the floor the
\* estimator returns the largest raw score, or the default when the largest is
\* below the floor too; the factor returned is never below the floor.
C10_NeverBelowFloor ==
    (EstimatorCall /\ ret.status = "ok") =>
        /\ C10_P90 < C9_Floor =>
               ret.value = (IF C10_Max < C9_Floor THEN C10_Default ELSE C10_Max)
        /\ ret.value >= C9_Floor

\* C10: when the 90th-percentile raw score is below the floor the transmission
\* estimator returns the largest raw score, or 5000.0 when the largest is below
\* 1000.0 too, and never returns less than 1000.0; the generation estimator
\* returns the largest raw score whenever it is not zero, below 1.0 or not, and
\* 100.0 when it is zero, so that its factor is positive.
C10_FloorFallback ==
    (EstimatorCall /\ ret.status = "ok") =>
        IF call.op = "estimate_transmission_normalization_factor"
        THEN /\ C10_P90 < C9_Floor =>
                    ret.value = (IF C10_Max < C9_Floor THEN C10_Default ELSE C10_Max)
             /\ ret.value >= C9_Floor
        ELSE /\ C10_P90 < C9_Floor =>
                    ret.value = (IF C10_Max = 0 THEN C10_Default ELSE C10_Max)
             /\ ret.value > 0

\* C10 witness: the transmission estimator with every raw score below 1000.0
\* and some above zero has returned 5000.0
C10_Witness ==
    /\ EstimatorCall
    /\ call.op = "estimate_transmission_normalization_factor"
    /\ ret.status = "ok"
    /\ 0 < C10_Max /\ C10_Max < C9_Floor
    /\ ret.value = TRANS_DEFAULT_MW * TransUnit

----------------------------------------------------------------------------
(* grid_data.py: rescoring the nodes *)

C21_Call ==
    call.op \in {"calculate_real_clean_gen_scores", "calculate_real_transmission_scores"}

\* A returned node against the node given: everything but the recomputed score
C21_SameButScore(new, old) ==
    /\ new.id = old.id
    /\ new.latitude = old.latitude
    /\ new.reliability = old.reliability
    /\ call.op = "calculate_real_clean_gen_scores"
           => new.transmission_headroom = old.transmission_headroom
    /\ call.op = "calculate_real_transmission_scores" => new.clean_gen = old.clean_gen

C21_NothingUsable ==
    \/ ~call.import_ok
    \/ /\ call.op = "calculate_real_clean_gen_scores"
       /\ \A i \in 1..Len(call.energy_sources) : call.energy_sources[i].coordinates = None
    \/ /\ call.op = "calculate_real_transmission_scores"
       /\ call.power_plants = <<>>

C21_Returned ==
    /\ ret.status = "ok"
    /\ Len(ret.value) = Len(call.nodes)
    /\ \A i \in 1..Len(call.nodes) : C21_SameButScore(ret.value[i], call.nodes[i])
    /\ C21_NothingUsable => ret.value = call.nodes

\* C21: calculate_real_clean_gen_scores and calculate_real_transmission_scores
\* leave the list and the nodes they are given as they were; the nodes they
\* return have the ids, the order and the other fields of the nodes given and
\* differ from them in the recomputed score only; without a usable source, or on
\* an error, they return the nodes given.
C21_NodesGivenAreKept ==
    [][(C21_Call /\ ret = Pending /\ ret' # Pending) => (call' = call /\ C21_Returned')]_vars

\* A rescoring that gave a node a new score above zero
C21_Witness ==
    /\ call.op = "calculate_real_clean_gen_scores"
    /\ ret # Pending
    /\ \E i \in 1..Len(call.nodes) :
           ret.value[i].clean_gen \notin {0, call.nodes[i].clean_gen}

----------------------------------------------------------------------------
(* power_plants_data.py: GeoJSON *)

\* C22: power_plants_to_geojson(plants, include_metadata=True) returns one
\* feature for each plant given and a metadata record that has the keys
\* total_capacity_mw and renewable_count.
C22_GeojsonMetadataKeys ==
    (Returned("power_plants_to_geojson") /\ call.include_metadata)
        => /\ Len(ret.value.features) = Len(call.plants)
           /\ "metadata" \in DOMAIN ret.value
           /\ {"total_capacity_mw", "renewable_count"} \subseteq DOMAIN ret.value.metadata

----------------------------------------------------------------------------
(* siting_engine.py: validation before ranking *)

\* C23: rank_sites and _find_alternatives fail with a validation error for
\* every weight vector that does not sum to 1.0, whatever the list of sites,
\* the empty list included; no result is returned under such weights.
C23_InvalidWeightsRejected ==
    (call.op \in {"rank_sites", "_find_alternatives"} /\ ret # Pending
       /\ ~validate_sum(call.weights))
        => ret = ValueError

----------------------------------------------------------------------------
(* siting_engine.py: the unused energy_sources argument *)

\* The clean plants of the catalog of the call, each with multiplier 1.0
C24_CleanPlants ==
    LET clean == SelectSeq(call.power_plants, is_clean)
    IN [i \in 1..Len(clean) |->
           EnergySource(clean[i].latitude, clean[i].nameplate_mw, MultScale)]

\* The clean-generation score of those plants at the location of the call, in
\* tenths
C24_CleanScore ==
    IF C24_CleanPlants = <<>> THEN 0
    ELSE calculate_clean_gen_score(call.latitude, C24_CleanPlants,
             estimate_normalization_factor(MockNodeLatitudes, C24_CleanPlants),
             IF call.demand_profile = None THEN None
             ELSE Some(call.demand_profile[1].size_mw))

\* C24: calculate_scores_from_coordinates returns the same result whatever its
\* energy_sources argument, and the clean-generation score of the breakdown is
\* the one computed from the plants of power_plants that are clean, each with
\* multiplier 1.0.
C24_EnergySourcesUnused ==
    (call.op = "calculate_scores_from_coordinates" /\ ret # Pending) =>
        /\ \A e \in {<<>>, <<EnergySource(4460, 300, 20)>>,
                     <<EnergySource(call.latitude, 2000, 10)>>} :
               calculate_scores_from_coordinates(call.latitude, e, call.power_plants,
                   call.weights, call.demand_profile).ret = ret
        /\ ret.status = "ok" => ret.value.clean_gen_score = 100 * C24_CleanScore

\* C24 witness: a call given an energy source, whose catalog holds a plant that
\* is not clean, scored above zero for clean generation
C24_Witness ==
    /\ Returned("calculate_scores_from_coordinates")
    /\ call.energy_sources # <<>>
    /\ \E i \in 1..Len(call.power_plants) : ~is_clean(call.power_plants[i])
    /\ ret.value.clean_gen_score > 0

----------------------------------------------------------------------------
(* siting_engine.py: the deltas of a comparison *)

\* C25: for a non-empty list of evaluations, where a site id may occur more
\* than once, every value of score_deltas is at most 0, the delta of
\* best_site_id is 0, and score_deltas has one entry for each evaluation.
C25_DeltasPerEvaluation ==
    (Returned("compare_scenarios") /\ call.evaluations # <<>>) =>
        /\ \A id \in DOMAIN ret.value.score_deltas : ret.value.score_deltas[id] <= 0
        /\ ret.value.score_deltas[ret.value.best_site_id] = 0
        /\ Cardinality(DOMAIN ret.value.score_deltas) = Len(call.evaluations)

----------------------------------------------------------------------------
(* siting_engine.py: the isolated-site value *)

\* C30: whenever a plant of the catalog lies within 200 km of the location,
\* _calculate_reliability_score returns at least 30.0, the value it returns
\* when no plant does.
C30_IsolatedValueIsLowerBound ==
    (Returned("_calculate_reliability_score")
       /\ \E i \in 1..Len(call.power_plants) :
              pythagorean_distance(call.latitude, call.power_plants[i].latitude) <= 200)
        => ret.value >= 30000

----------------------------------------------------------------------------
(* main.py: the catalog behind the loaded scores *)

\* C26: after startup and any reloads, the module-level catalog of power
\* plants, which evaluate_location and the power-plant endpoints read, is the
\* catalog the transmission scores of the loaded grid_nodes were last
\* recomputed from: recomputing them from it gives the scores loaded.
C26_CatalogMatchesLoadedScores ==
    call.op # "import main" =>
        \A i \in 1..Len(main.grid_nodes) :
            main.grid_nodes[i].transmission_headroom =
                generate_grid_nodes_with_real_scores(<<>>, main.power_plants)[i]
                    .transmission_headroom

\* The entry of the rankings of the loaded grid_nodes for the site evaluated
C27_Ranked ==
    LET ranked == rank_sites(main.grid_nodes, call.request.weights).value
    IN ranked[CHOOSE k \in 1..Len(ranked) : ranked[k].node.id = call.request.site_id]

\* C27: after startup and any reloads, the composite score that POST
\* /api/siting/evaluate reports for a site is the composite score that the
\* rankings of the loaded grid_nodes give the site of that id under the same
\* weights, and the site evaluated carries the scores of the loaded catalog.
C27_EvaluateAgreesWithRankings ==
    (call.op = "evaluate_site" /\ ret.status = "ok") =>
        /\ ret.value.score_breakdown.composite_score = C27_Ranked.score
        /\ ret.value.site = C27_Ranked.node

\* C28: over any sequence of save, clear and compare requests, compare_scenarios
\* resolves a scenario_id that save_scenario returned to the evaluation whose
\* save returned it, or rejects the id.
C28_ScenarioIdKeepsItsEvaluation ==
    (call.op = "compare_scenarios" /\ ret.status = "ok") =>
        \A k \in 1..Len(call.scenario_ids) :
            \A pair \in issued :
                pair[1] = call.scenario_ids[k] => trace[k] = pair[2]

\* C29: evaluate_location answers every request whose weights sum to 1.0 (the
\* latitude in range, the demand absent or between 10 and 2000 MW) with an
\* evaluation whose site carries the scores of its score_breakdown; the scores
\* computed never make it reject the request.
C29_WellFormedLocationAnswered ==
    (call.op = "evaluate_location" /\ validate_sum(call.request.weights)) =>
        /\ ret.status = "ok"
        /\ ret.value.site.clean_gen = ret.value.score_breakdown.clean_gen_score
        /\ ret.value.site.transmission_headroom =
               ret.value.score_breakdown.transmission_score
        /\ ret.value.site.reliability = ret.value.score_breakdown.reliability_score

====
